---- MODULE Spec2Model ----
(***************************************************************************)
(* Model of two workbench components:                                      *)
(*  - SearchView (src/vs/workbench/contrib/search/browser/searchView.ts):  *)
(*    the query / search / progress lifecycle and the result-tree refresh. *)
(*  - the file commands (src/unnamed/part_000): compare-with-saved, the    *)
(*    save / revert commands and the copy-path commands.                   *)
(* Handlers of the search view are operators from a record of the view's   *)
(* fields to the record after the handler ran, so that a handler calling   *)
(* another one is the composition of the two operators.                    *)
(***************************************************************************)
EXTENDS Integers, Sequences, FiniteSets, TLC

\* ------------------------------------------------------------------ bounds
MaxQueries == 2         \* queries submitted through onQueryChanged
MaxFiles == 1           \* file matches the search result can hold
MaxFolderQueries == 1   \* folder queries of a query built by the search view
MaxValidated == 3       \* folder queries of a query given to validateQuery alone
TimeSteps == 2          \* steps of the clock within SlowDelay
MaxInvocations == 3     \* invocations of the compare-with-saved command
MaxSelected == 2        \* editors or resources selected for one command
MaxInfos == 2           \* info notifications of the copy-path commands
MaxCommands == 3        \* invocations of the compare commands
MaxReveals == 2         \* invocations of the reveal-in-explorer command
MaxMatches == 2         \* matches of one file of the result tree

\* ------------------------------------------------------- program constants
SlowDelay == 2000       \* setTimeout(..., 2000) of doSearch
CollapseThreshold == 10 \* fileMatch.matches().length > 10 of createFolderIterator
ExpandThreshold == 50   \* onlyMatch.count() < 50 of onComplete

\* ------------------------------------------------------------- search view
VARIABLES
    state,              \* SearchView.state: SearchUIState
    visible,            \* ViewletPanel.isVisible()
    changedWhileHidden, \* SearchView.changedWhileHidden
    fileCount,          \* viewModel.searchResult.fileCount()
    treeFiles,          \* file matches the tree was last given by setChildren
    refreshed,          \* the last handler called refreshTree
    message,            \* content of messagesElement
    inputMessage,       \* message shown below the search input
    pending,            \* queries whose viewModel.search promise is pending
    cancelled,          \* pending searches whose cancellation was requested
    progress,           \* progress tasks of withProgress not yet completed
    slowArmed,          \* queries whose slowTimer is set and not cleared
    age,                \* ms since doSearch of a query started (up to SlowDelay)
    validating,         \* validateQuery promises in flight
    searchQ,            \* the links of the currentSearchQ promise chain
    startOrder,         \* queries in the order doSearch was invoked
    uiRefresh,          \* per doSearch: its uiRefreshHandle interval and closure
    nextQ,              \* number of queries built so far
    lastOp              \* the handler that ran last, with its inputs

searchVars == <<state, visible, changedWhileHidden, fileCount, treeFiles, refreshed,
                message, inputMessage, pending, cancelled, progress, slowArmed, age,
                validating, searchQ, startOrder, uiRefresh, nextQ, lastOp>>

\* ---------------------------------------------------------- validateQuery
VARIABLES
    vqQuery,            \* query.folderQueries when validateQuery is called
    vqExist,            \* the results of fileService.exists, one per folder query
    vqFolderQueries,    \* query.folderQueries
    vqStatus,           \* the promise of validateQuery: pending, resolved, rejected
    vqError             \* the message of the error it rejects with

validateVars == <<vqQuery, vqExist, vqFolderQueries, vqStatus, vqError>>

\* ------------------------------------------------------ compare with saved
VARIABLES
    providerDisposables, \* the module's providerDisposables
    registered,          \* providers registered for the showModifications scheme
    opening,             \* invocations that await TextFileContentProvider.open
    openEditors,         \* open editors with a showModifications resource
    invoked,             \* number of invocations of the command so far
    compareOp            \* what happened last

compareVars == <<providerDisposables, registered, opening, openEditors, invoked, compareOp>>

\* ----------------------------------------------------------- save / revert
VARIABLES
    command,            \* the save or revert command that ran last
    notified            \* what notificationService showed since it started

saveVars == <<command, notified>>

\* --------------------------------------------------------------- copy path
VARIABLES
    isWindows,          \* platform.isWindows
    clipboard,          \* the text clipboardService holds
    infos,              \* number of notificationService.info calls
    copyOp              \* the copy command that ran last

copyVars == <<isWindows, clipboard, infos, copyOp>>

\* ------------------------------------------------------------ compare files
VARIABLES
    globalResourceToCompare,            \* the module's globalResourceToCompare
    resourceSelectedForCompareContext,  \* value of the ResourceSelectedForCompareContext key
    openedDiffs,                        \* the inputs editorService.openEditor was given, in order
    compareLog                          \* the compare commands invoked so far, with their resources

compareFilesVars == <<globalResourceToCompare, resourceSelectedForCompareContext, openedDiffs, compareLog>>

\* ------------------------------------------------------- remove root folder
VARIABLES
    workspace,  \* contextService.getWorkspace()
    removeOp    \* the last removeRootFolder: its selection, the folders it saw, its call

removeVars == <<workspace, removeOp>>

\* ------------------------------------------------------- reveal in explorer
VARIABLES
    reveals   \* the invocations of revealInExplorer: input, position, calls made

revealVars == <<reveals>>

\* -------------------------------------------------------- search in folders
VARIABLES
    workbenchState,        \* contextService.getWorkbenchState()
    wsFolders,             \* contextService.getWorkspace().folders, each with uri and name
    inputPatternIncludes,  \* value of the files-to-include input
    queryDetailsShown,     \* showsFileTypes(): the query details are shown
    searchInOp             \* the last searchInFolders call and its resources

includeVars == <<workbenchState, wsFolders, inputPatternIncludes, queryDetailsShown, searchInOp>>

\* -------------------------------------------------------------- result tree
VARIABLES
    resultMatches,    \* searchResult: the matches of each of its file matches
    treeChildren,     \* the children the tree holds for each of its nodes
    collapsedNodes,   \* the collapsed nodes of the tree
    selection,        \* tree.getSelection()
    focus,            \* tree.getFocus()
    rerendered,       \* the elements tree.rerender was called for by the last handler
    collapseResults,  \* the search.collapseResults setting
    treeOp            \* the handler of the tree that ran last, with its outcome

treeVars == <<resultMatches, treeChildren, collapsedNodes, selection, focus, rerendered, collapseResults, treeOp>>

\* -------------------------------------------------------------- replace all
VARIABLES
    resultCount,              \* viewModel.searchResult.count()
    replaceAlls,              \* the calls of replaceAll that went past the count check
    replaceAllActionEnabled,  \* the state of the replace-all action of the search widget
    messagesElement,          \* what replaceAll left in messagesElement
    errorNotifications,       \* notificationService.error calls of replaceAll
    replaceOp                 \* the step of replaceAll that ran last

replaceVars == <<resultCount, replaceAlls, replaceAllActionEnabled, messagesElement, errorNotifications, replaceOp>>

vars == <<searchVars, validateVars, compareVars, saveVars, copyVars,
         compareFilesVars, removeVars, revealVars, includeVars, treeVars,
         replaceVars>>

Idle == "Idle"
Searching == "Searching"
SlowSearch == "SlowSearch"
SearchUIState == {Idle, Searching, SlowSearch}

Folders == {"f1", "f2"}
WorkspaceFolders == {"f1"}   \* contextService.getWorkspace().folders
QueryIds == 1..MaxQueries

Min(a, b) == IF a < b THEN a ELSE b

\* The value of a variable or argument that holds no resource.
undefined == "undefined"

\* An element of the search result: the result itself, a folder match, a file
\* match of a folder or a match of a file.
Element(kind, folder, file, match) ==
    [kind |-> kind, folder |-> folder, file |-> file, match |-> match]

\* The SearchResult: the root of the result tree (the tree's null).
Root == Element("SearchResult", 0, 0, 0)

\* ms by which the clock of the model moves on
TimeStep == (SlowDelay + TimeSteps - 1) \div TimeSteps

\* The most calls of updateActions the model counts for one interval.
MaxCounted == 2

\* The most matches of the result replaceAll is called with.
MaxOccurrences == 2

\* The most calls of replaceAll that go past the count check.
MaxReplaceAlls == 2

\* Before doSearch ran for a query, and after its interval was cleared.
NoInterval == [active |-> FALSE, visibleMatches |-> 0,
               updatedActionsForFileCount |-> FALSE, updateActionsCalls |-> 0]

\* The fields of the view (and of its collaborators) as one record.
S == [state |-> state, visible |-> visible, changedWhileHidden |-> changedWhileHidden,
      fileCount |-> fileCount, treeFiles |-> treeFiles, refreshed |-> refreshed,
      message |-> message, inputMessage |-> inputMessage, pending |-> pending,
      cancelled |-> cancelled, progress |-> progress, slowArmed |-> slowArmed,
      age |-> age, validating |-> validating, searchQ |-> searchQ,
      startOrder |-> startOrder, uiRefresh |-> uiRefresh, nextQ |-> nextQ,
      lastOp |-> lastOp]

\* The state after a handler: the record t it returns.
Commit(t) ==
    /\ state' = t.state
    /\ visible' = t.visible
    /\ changedWhileHidden' = t.changedWhileHidden
    /\ fileCount' = t.fileCount
    /\ treeFiles' = t.treeFiles
    /\ refreshed' = t.refreshed
    /\ message' = t.message
    /\ inputMessage' = t.inputMessage
    /\ pending' = t.pending
    /\ cancelled' = t.cancelled
    /\ progress' = t.progress
    /\ slowArmed' = t.slowArmed
    /\ age' = t.age
    /\ validating' = t.validating
    /\ searchQ' = t.searchQ
    /\ startOrder' = t.startOrder
    /\ uiRefresh' = t.uiRefresh
    /\ nextQ' = t.nextQ
    /\ lastOp' = t.lastOp
    /\ UNCHANGED <<validateVars, compareVars, saveVars, copyVars, compareFilesVars, removeVars, revealVars, includeVars, treeVars, replaceVars>>

\* A handler starts: nothing refreshed yet, and it is the last handler.
Begin(op) == [S EXCEPT !.refreshed = FALSE, !.lastOp = op]

InitSearch ==
    /\ state = Idle
    /\ visible \in BOOLEAN
    /\ changedWhileHidden = FALSE
    /\ fileCount = 0
    /\ treeFiles = 0
    /\ refreshed = FALSE
    /\ message = "none"
    /\ inputMessage = "none"
    /\ pending = {}
    /\ cancelled = {}
    /\ progress = {}
    /\ slowArmed = {}
    /\ age = [q \in QueryIds |-> 0]
    /\ validating = {}
    /\ searchQ = <<>>
    /\ startOrder = <<>>
    /\ uiRefresh = [q \in QueryIds |-> NoInterval]
    /\ nextQ = 0
    /\ lastOp = [op |-> "init"]
    /\ vqQuery = <<>>
    /\ vqExist = <<>>
    /\ vqFolderQueries = <<>>
    /\ vqStatus = "pending"
    /\ vqError = "none"
    /\ providerDisposables = <<>>
    /\ registered = {}
    /\ opening = {}
    /\ openEditors = {}
    /\ invoked = 0
    /\ compareOp = [op |-> "init"]
    /\ command = [status |-> "none"]
    /\ notified = <<>>
    /\ isWindows = FALSE
    /\ clipboard = ""
    /\ infos = 0
    /\ copyOp = [op |-> "init"]
    /\ globalResourceToCompare = undefined
    /\ resourceSelectedForCompareContext = FALSE
    /\ openedDiffs = <<>>
    /\ compareLog = <<>>
    /\ workspace = [folders |-> <<>>]
    /\ removeOp = [op |-> "init"]
    /\ reveals = <<>>
    /\ workbenchState = "EMPTY"
    /\ wsFolders = <<>>
    /\ inputPatternIncludes = ""
    /\ queryDetailsShown = FALSE
    /\ searchInOp = [op |-> "init"]
    /\ resultMatches = <<>>
    /\ treeChildren = (Root :> <<>>)
    /\ collapsedNodes = {}
    /\ selection = <<>>
    /\ focus = <<>>
    /\ rerendered = {}
    /\ collapseResults = "auto"
    /\ treeOp = [op |-> "init", hangs |-> FALSE]
    /\ resultCount = 0
    /\ replaceAlls = <<>>
    /\ replaceAllActionEnabled = FALSE
    /\ messagesElement = <<>>
    /\ errorNotifications = 0
    /\ replaceOp = [op |-> "init"]

\* ------------------------------------------------- rendering the results

\* refreshTree(): tree.setChildren(null, createResultIterator(...)).
refreshTree(s) == [s EXCEPT !.treeFiles = s.fileCount, !.refreshed = TRUE]

\* refreshAndUpdateCount(): replace-all state, result count, refreshTree.
refreshAndUpdateCount(s) == refreshTree(s)

\* onSearchResultsChanged(event?)
onSearchResultsChanged(s) ==
    IF s.visible
    THEN refreshAndUpdateCount(s)
    ELSE [s EXCEPT !.changedWhileHidden = TRUE]

onVisibilityChanged_AlwaysRefresh(s, v) ==
    LET t == [s EXCEPT !.visible = v]
    IN  IF v THEN [refreshAndUpdateCount(t) EXCEPT !.changedWhileHidden = FALSE] ELSE t

\* onVisibilityChanged(visible)
onVisibilityChanged(s, v) ==
    LET t == [s EXCEPT !.visible = v]
    IN  IF v /\ t.changedWhileHidden
        THEN [refreshAndUpdateCount(t) EXCEPT !.changedWhileHidden = FALSE]
        ELSE t

\* viewModel.searchResult.clear(): the result fires onChange when it held matches.
searchResultClear(s) ==
    IF s.fileCount > 0
    THEN onSearchResultsChanged([s EXCEPT !.fileCount = 0])
    ELSE s

\* viewModel.cancelSearch(): cancels the token of the search in flight.
viewModelCancelSearch(s) == [s EXCEPT !.cancelled = s.cancelled \cup s.pending]

\* clearMessage(): empties messagesElement.
clearMessage(s) == [s EXCEPT !.message = "none"]

\* clearSearchResults()
clearSearchResults(s) == viewModelCancelSearch(searchResultClear(s))


\* ------------------------------------------------------------ validateQuery

\* folder.fsPath of a folder query
fsPath(folder) == "/" \o folder

\* nls.localize('searchPathNotFoundError', "Search path not found: {0}", path)
searchPathNotFoundError(path) == "Search path not found: " \o path

RECURSIVE FilterByIndex(_, _, _)
\* Array.filter((folderQuery, i) => existResults[i]), from index i on
FilterByIndex(fqs, existResults, i) ==
    IF i > Len(fqs) THEN <<>>
    ELSE (IF existResults[i] THEN <<fqs[i]>> ELSE <<>>)
         \o FilterByIndex(fqs, existResults, i + 1)

validateQuery_ErrorOnEmpty(fqs, existResults) ==
    LET existingFolderQueries == FilterByIndex(fqs, existResults, 1)
    IN  IF Len(existingFolderQueries) > 0
        THEN [ok |-> TRUE, folderQueries |-> existingFolderQueries, error |-> "none"]
        ELSE [ok |-> FALSE, folderQueries |-> fqs,
              error |-> searchPathNotFoundError(IF Len(fqs) > 0 THEN fsPath(fqs[1]) ELSE "")]

\* validateQuery(query): the promise's outcome and query.folderQueries after it,
\* for the results existResults of fileService.exists on each folder query.
validateQuery(fqs, existResults) ==
    LET existingFolderQueries == FilterByIndex(fqs, existResults, 1)
    IN  IF Len(fqs) = 0 \/ Len(existingFolderQueries) > 0
        THEN [ok |-> TRUE, folderQueries |-> existingFolderQueries, error |-> "none"]
        ELSE [ok |-> FALSE, folderQueries |-> fqs,
              error |-> searchPathNotFoundError(fsPath(fqs[1]))]

\* ------------------------------------------------------ the query pipeline

\* onQueryValidationError(err)
onQueryValidationError(s) == searchResultClear([s EXCEPT !.inputMessage = "error"])

onQueryChanged_IgnoresValidity(s, valid, pattern, buildThrows, fqs) ==
    IF pattern = "" THEN clearMessage(clearSearchResults(s))
    ELSE IF buildThrows THEN onQueryValidationError(s)
    ELSE [s EXCEPT !.nextQ = s.nextQ + 1,
                   !.validating = s.validating \cup {[q |-> s.nextQ + 1, fqs |-> fqs]}]

\* onQueryChanged(preserveFocus, triggeredOnType): valid is isInputValid(),
\* pattern the content pattern, buildThrows whether queryBuilder.text throws,
\* fqs the folder queries of the query it builds.
onQueryChanged(s, valid, pattern, buildThrows, fqs) ==
    IF ~valid THEN s
    ELSE IF pattern = "" THEN clearMessage(clearSearchResults(s))
    ELSE IF buildThrows THEN onQueryValidationError(s)
    ELSE [s EXCEPT !.nextQ = s.nextQ + 1,
                   !.validating = s.validating \cup {[q |-> s.nextQ + 1, fqs |-> fqs]}]

\* onQueryTriggered(query, ...): cancel the search in flight, then append
\* .then(() => doSearch(query)).then(() => undefined, () => undefined)
onQueryTriggered_NoCancel(s, q, fqs) ==
    [s EXCEPT !.searchQ = Append(s.searchQ,
                  [q |-> q, st |-> "waiting", ran |-> FALSE, outcome |-> "none"])]

onQueryTriggered(s, q, fqs) ==
    LET t == viewModelCancelSearch(s)
    IN  [t EXCEPT !.searchQ = Append(t.searchQ,
                      [q |-> q, st |-> "waiting", ran |-> FALSE, outcome |-> "none"])]

\* validateQuery(query).then(() => onQueryTriggered(...), onQueryValidationError)
validateSettled(s, v, existResults) ==
    LET r == validateQuery(v.fqs, existResults)
        t == [s EXCEPT !.validating = s.validating \ {v}]
    IN  IF r.ok THEN onQueryTriggered(t, v.q, r.folderQueries)
        ELSE onQueryValidationError(t)

QSwallow_Missing(outcome) == outcome

\* .then(() => undefined, () => undefined): the link of the queue fulfils
\* whatever the outcome of the doSearch promise before it.
QSwallow(outcome) == "fulfilled"

Settled(st) == st \in {"fulfilled", "rejected"}

\* currentSearchQ.then(...): link i runs once the link before it settled.
CanStart(s, i) ==
    /\ s.searchQ[i].st = "waiting"
    /\ i > 1 => Settled(s.searchQ[i - 1].st)

\* let visibleMatches = 0; let updatedActionsForFileCount = false;
\* const uiRefreshHandle = setInterval(..., 100)
setInterval == [active |-> TRUE, visibleMatches |-> 0,
                updatedActionsForFileCount |-> FALSE, updateActionsCalls |-> 0]

\* this.updateActions() called from the interval of query q, counted.
updateActionsOf(s, q) ==
    [s EXCEPT !.uiRefresh[q].updateActionsCalls = Min(@ + 1, MaxCounted)]

\* window.clearInterval(uiRefreshHandle): the closure is gone with it, the
\* count of its calls is kept.
clearInterval(s, q) ==
    [s EXCEPT !.uiRefresh[q] =
        [NoInterval EXCEPT !.updateActionsCalls = s.uiRefresh[q].updateActionsCalls]]

uiRefreshTick_AlwaysRefreshes(s, q) ==
    IF s.state = Idle THEN clearInterval(s, q)
    ELSE LET fc == s.fileCount
             a  == refreshAndUpdateCount([s EXCEPT !.uiRefresh[q].visibleMatches = fc])
         IN  IF fc > 0 /\ ~a.uiRefresh[q].updatedActionsForFileCount
             THEN updateActionsOf(
                      [a EXCEPT !.uiRefresh[q].updatedActionsForFileCount = TRUE], q)
             ELSE a

\* The callback of uiRefreshHandle, every 100 ms while the interval is set.
uiRefreshTick(s, q) ==
    IF s.state = Idle THEN clearInterval(s, q)
    ELSE LET fc == s.fileCount
             a  == IF s.uiRefresh[q].visibleMatches # fc
                   THEN refreshAndUpdateCount(
                            [s EXCEPT !.uiRefresh[q].visibleMatches = fc])
                   ELSE s
         IN  IF fc > 0 /\ ~a.uiRefresh[q].updatedActionsForFileCount
             THEN updateActionsOf(
                      [a EXCEPT !.uiRefresh[q].updatedActionsForFileCount = TRUE], q)
             ELSE a

\* doSearch(query, ...) up to the call of viewModel.search(query)
doSearch(s, q) ==
    [s EXCEPT !.progress = s.progress \cup {q},
              !.inputMessage = "none",
              !.state = Searching,
              !.slowArmed = s.slowArmed \cup {q},
              !.age = [s.age EXCEPT ![q] = 0],
              !.uiRefresh = [s.uiRefresh EXCEPT ![q] = setInterval],
              !.pending = s.pending \cup {q},
              !.startOrder = Append(s.startOrder, q)]

\* The callback of link i of currentSearchQ: doSearch when the promise before
\* it fulfilled; a rejected promise passes its rejection on without calling it.
runLink(s, i) ==
    IF i = 1 \/ s.searchQ[i - 1].st = "fulfilled"
    THEN doSearch([s EXCEPT !.searchQ[i].st = "running", !.searchQ[i].ran = TRUE],
                  s.searchQ[i].q)
    ELSE [s EXCEPT !.searchQ[i].st = QSwallow("rejected")]

\* clearTimeout(slowTimer)
clearSlowTimer(s, q) ==
    [s EXCEPT !.slowArmed = s.slowArmed \ {q}, !.age = [s.age EXCEPT ![q] = 0]]

\* progressComplete()
progressComplete(s, q) == [s EXCEPT !.progress = s.progress \ {q}]

onComplete_KeepsTimer(s, q, completed, renderThrows) ==
    LET a == progressComplete([s EXCEPT !.state = Idle], q)
    IN  IF renderThrows THEN a
        ELSE LET b == onSearchResultsChanged(a)
             IN  IF b.fileCount = 0
                 THEN [b EXCEPT !.message = IF completed THEN "noResults" ELSE "cancelled"]
                 ELSE b

\* onComplete(completed?): renderThrows is the final render throwing in
\* refreshAndUpdateCount (searchResult.query! is dereferenced there).
onComplete(s, q, completed, renderThrows) ==
    LET a == progressComplete([clearSlowTimer(s, q) EXCEPT !.state = Idle], q)
    IN  IF renderThrows THEN a
        ELSE LET b == onSearchResultsChanged(a)
             IN  IF b.fileCount = 0
                 THEN [b EXCEPT !.message = IF completed THEN "noResults" ELSE "cancelled"]
                 ELSE b

onError_NoProgressComplete(s, q, isCanceled, renderThrows) ==
    LET a == [clearSlowTimer(s, q) EXCEPT !.state = Idle]
    IN  IF isCanceled THEN onComplete(a, q, FALSE, renderThrows)
        ELSE searchResultClear([a EXCEPT !.inputMessage = "error"])

\* onError(e): isCanceled is errors.isPromiseCanceledError(e)
onError(s, q, isCanceled, renderThrows) ==
    LET a == [clearSlowTimer(s, q) EXCEPT !.state = Idle]
    IN  IF isCanceled THEN onComplete(a, q, FALSE, renderThrows)
        ELSE searchResultClear([progressComplete(a, q) EXCEPT !.inputMessage = "error"])

LinkOf(s, q) == CHOOSE i \in 1..Len(s.searchQ) : s.searchQ[i].q = q

\* viewModel.search(query).then(onComplete, onError), and the link of
\* currentSearchQ that waits for it.
searchSettled(s, q, outcome, renderThrows) ==
    LET a == [s EXCEPT !.pending = s.pending \ {q}, !.cancelled = s.cancelled \ {q}]
        b == IF outcome = "complete" THEN onComplete(a, q, TRUE, renderThrows)
             ELSE onError(a, q, outcome = "cancelled", renderThrows)
        threw == renderThrows /\ outcome # "error"
        i == LinkOf(s, q)
        outcomeOfDoSearch == IF threw THEN "rejected" ELSE "fulfilled"
    IN  [b EXCEPT !.searchQ[i].st = QSwallow(outcomeOfDoSearch),
                  !.searchQ[i].outcome = outcomeOfDoSearch,
                  !.age = [q2 \in QueryIds |->
                             IF q2 \in b.pending \cup b.slowArmed THEN b.age[q2] ELSE 0]]

\* The callback of slowTimer.
slowTimerFired(s, q) ==
    [s EXCEPT !.slowArmed = s.slowArmed \ {q}, !.state = SlowSearch]

\* The clock moves on for every search that runs or has its timer set.
advanceTime(s) ==
    [s EXCEPT !.age = [q \in QueryIds |->
                         IF q \in s.pending \cup s.slowArmed
                         THEN Min(s.age[q] + TimeStep, SlowDelay)
                         ELSE s.age[q]]]

\* The search result gains a file match and fires onChange.
resultsArrive(s) == onSearchResultsChanged([s EXCEPT !.fileCount = s.fileCount + 1])

\* --------------------------------------------------------- search actions

Patterns == {"", "p"}

RECURSIVE SeqsUpTo(_, _)
SeqsUpTo(X, n) ==
    IF n = 0 THEN {<<>>}
    ELSE LET shorter == SeqsUpTo(X, n - 1)
         IN  shorter \cup {Append(x, e) : x \in {y \in shorter : Len(y) = n - 1}, e \in X}

OnVisibilityChanged ==
    \E v \in BOOLEAN :
        /\ v # visible
        /\ Commit(onVisibilityChanged(Begin([op |-> "onVisibilityChanged", arg |-> v]), v))

OnQueryChanged ==
    \E valid \in BOOLEAN, pattern \in Patterns, buildThrows \in BOOLEAN,
       fqs \in SeqsUpTo(WorkspaceFolders, MaxFolderQueries) :
        /\ (valid /\ pattern # "" /\ ~buildThrows) => nextQ < MaxQueries
        \* no query is built on the other paths
        /\ ~(valid /\ pattern # "" /\ ~buildThrows) => fqs = <<>>
        /\ ~(valid /\ pattern # "") => ~buildThrows
        /\ Commit(onQueryChanged(
               Begin([op |-> "onQueryChanged", valid |-> valid, pattern |-> pattern,
                      built |-> ~buildThrows]),
               valid, pattern, buildThrows, fqs))

ValidateSettled ==
    \E v \in validating, existResults \in [1..MaxFolderQueries -> BOOLEAN] :
        Commit(validateSettled(
            Begin([op |-> "validateSettled", ok |-> validateQuery(v.fqs, existResults).ok]),
            v, existResults))

RunSearchQ ==
    \E i \in 1..Len(searchQ) :
        /\ CanStart(S, i)
        /\ Commit(runLink(Begin([op |-> "doSearch"]), i))

SearchSettled ==
    \E q \in pending, outcome \in {"complete", "cancelled", "error"},
       renderThrows \in BOOLEAN :
        /\ outcome = "cancelled" => q \in cancelled
        /\ renderThrows => visible /\ outcome # "error"
        /\ Commit(searchSettled(Begin([op |-> "searchSettled", outcome |-> outcome]),
                                q, outcome, renderThrows))

SlowTimerFired ==
    \E q \in slowArmed :
        /\ age[q] >= SlowDelay
        /\ Commit(slowTimerFired(Begin([op |-> "slowTimer"]), q))

AdvanceTime ==
    /\ \E q \in pending \cup slowArmed : age[q] < SlowDelay
    /\ Commit(advanceTime(Begin([op |-> "advanceTime"])))

ResultsArrive ==
    /\ pending \ cancelled # {}
    /\ fileCount < MaxFiles
    /\ Commit(resultsArrive(Begin([op |-> "resultsArrive"])))

CancelSearch ==
    /\ pending \ cancelled # {}
    /\ Commit(viewModelCancelSearch(Begin([op |-> "cancelSearch"])))

\* The interval of one doSearch fires.
UiRefreshTick ==
    \E q \in QueryIds :
        /\ uiRefresh[q].active
        /\ Commit(uiRefreshTick(Begin([op |-> "uiRefreshTick", q |-> q]), q))

NextSearch ==
    \/ OnVisibilityChanged
    \/ OnQueryChanged
    \/ ValidateSettled
    \/ RunSearchQ
    \/ SearchSettled
    \/ SlowTimerFired
    \/ AdvanceTime
    \/ ResultsArrive
    \/ CancelSearch

SpecSearch == InitSearch /\ [][NextSearch]_vars

\* -------------------------------------------------- the UI refresh interval
\* The callback of the interval writes the closure of its doSearch and the
\* tree only, so it has a specification of its own: searches are queued, run
\* and settle as above while the intervals of the searches fire in between.

InitUiRefresh ==
    /\ state = Idle
    /\ visible \in BOOLEAN
    /\ changedWhileHidden = FALSE
    /\ fileCount = 0
    /\ treeFiles = 0
    /\ refreshed = FALSE
    /\ message = "none"
    /\ inputMessage = "none"
    /\ pending = {}
    /\ cancelled = {}
    /\ progress = {}
    /\ slowArmed = {}
    /\ age = [q \in QueryIds |-> 0]
    /\ validating = {}
    /\ searchQ = <<>>
    /\ startOrder = <<>>
    /\ uiRefresh = [q \in QueryIds |-> NoInterval]
    /\ nextQ = 0
    /\ lastOp = [op |-> "init"]
    /\ vqQuery = <<>>
    /\ vqExist = <<>>
    /\ vqFolderQueries = <<>>
    /\ vqStatus = "pending"
    /\ vqError = "none"
    /\ providerDisposables = <<>>
    /\ registered = {}
    /\ opening = {}
    /\ openEditors = {}
    /\ invoked = 0
    /\ compareOp = [op |-> "init"]
    /\ command = [status |-> "none"]
    /\ notified = <<>>
    /\ isWindows = FALSE
    /\ clipboard = ""
    /\ infos = 0
    /\ copyOp = [op |-> "init"]
    /\ globalResourceToCompare = undefined
    /\ resourceSelectedForCompareContext = FALSE
    /\ openedDiffs = <<>>
    /\ compareLog = <<>>
    /\ workspace = [folders |-> <<>>]
    /\ removeOp = [op |-> "init"]
    /\ reveals = <<>>
    /\ workbenchState = "EMPTY"
    /\ wsFolders = <<>>
    /\ inputPatternIncludes = ""
    /\ queryDetailsShown = FALSE
    /\ searchInOp = [op |-> "init"]
    /\ resultMatches = <<>>
    /\ treeChildren = (Root :> <<>>)
    /\ collapsedNodes = {}
    /\ selection = <<>>
    /\ focus = <<>>
    /\ rerendered = {}
    /\ collapseResults = "auto"
    /\ treeOp = [op |-> "init", hangs |-> FALSE]
    /\ resultCount = 0
    /\ replaceAlls = <<>>
    /\ replaceAllActionEnabled = FALSE
    /\ messagesElement = <<>>
    /\ errorNotifications = 0
    /\ replaceOp = [op |-> "init"]

\* onQueryTriggered for the next query, built and validated.
OnQueryTriggered ==
    /\ nextQ < MaxQueries
    /\ Commit(onQueryTriggered(
           [Begin([op |-> "onQueryTriggered"]) EXCEPT !.nextQ = nextQ + 1],
           nextQ + 1, <<>>))

NextUiRefresh ==
    \/ OnQueryTriggered
    \/ RunSearchQ
    \/ SearchSettled
    \/ ResultsArrive
    \/ CancelSearch
    \/ OnVisibilityChanged
    \/ UiRefreshTick

SpecUiRefresh == InitUiRefresh /\ [][NextUiRefresh]_vars

\* ------------------------------------------------- validateQuery on its own

InitValidate ==
    /\ vqQuery \in SeqsUpTo(Folders, MaxValidated)
    /\ vqExist \in [1..Len(vqQuery) -> BOOLEAN]
    /\ vqFolderQueries = vqQuery
    /\ vqStatus = "pending"
    /\ vqError = "none"
    /\ providerDisposables = <<>>
    /\ registered = {}
    /\ opening = {}
    /\ openEditors = {}
    /\ invoked = 0
    /\ compareOp = [op |-> "init"]
    /\ command = [status |-> "none"]
    /\ notified = <<>>
    /\ isWindows = FALSE
    /\ clipboard = ""
    /\ infos = 0
    /\ copyOp = [op |-> "init"]
    /\ state = Idle
    /\ visible = TRUE
    /\ changedWhileHidden = FALSE
    /\ fileCount = 0
    /\ treeFiles = 0
    /\ refreshed = FALSE
    /\ message = "none"
    /\ inputMessage = "none"
    /\ pending = {}
    /\ cancelled = {}
    /\ progress = {}
    /\ slowArmed = {}
    /\ age = [q \in QueryIds |-> 0]
    /\ validating = {}
    /\ searchQ = <<>>
    /\ startOrder = <<>>
    /\ uiRefresh = [q \in QueryIds |-> NoInterval]
    /\ nextQ = 0
    /\ lastOp = [op |-> "init"]
    /\ globalResourceToCompare = undefined
    /\ resourceSelectedForCompareContext = FALSE
    /\ openedDiffs = <<>>
    /\ compareLog = <<>>
    /\ workspace = [folders |-> <<>>]
    /\ removeOp = [op |-> "init"]
    /\ reveals = <<>>
    /\ workbenchState = "EMPTY"
    /\ wsFolders = <<>>
    /\ inputPatternIncludes = ""
    /\ queryDetailsShown = FALSE
    /\ searchInOp = [op |-> "init"]
    /\ resultMatches = <<>>
    /\ treeChildren = (Root :> <<>>)
    /\ collapsedNodes = {}
    /\ selection = <<>>
    /\ focus = <<>>
    /\ rerendered = {}
    /\ collapseResults = "auto"
    /\ treeOp = [op |-> "init", hangs |-> FALSE]
    /\ resultCount = 0
    /\ replaceAlls = <<>>
    /\ replaceAllActionEnabled = FALSE
    /\ messagesElement = <<>>
    /\ errorNotifications = 0
    /\ replaceOp = [op |-> "init"]

Validate ==
    /\ vqStatus = "pending"
    /\ LET r == validateQuery(vqFolderQueries, vqExist)
       IN  /\ vqStatus' = IF r.ok THEN "resolved" ELSE "rejected"
           /\ vqFolderQueries' = r.folderQueries
           /\ vqError' = r.error
    /\ UNCHANGED <<vqQuery, vqExist, searchVars, compareVars, saveVars, copyVars, compareFilesVars, removeVars, revealVars, includeVars, treeVars, replaceVars>>

NextValidate == Validate

SpecValidate == InitValidate /\ [][NextValidate]_vars



\* ------------------------------------------------------ compare with saved

\* What getResourceForCommand and fileService.canHandleResource make of the
\* argument: no resource, a resource the file service cannot handle, a file.
ResourceKinds == {"none", "unhandled", "file"}

\* The providers whose registration is among the disposables of list.
RegistrationsIn(list) ==
    {list[i].id : i \in {j \in 1..Len(list) : list[j].kind = "registration"}}

\* Whether list holds the listener of onDidVisibleEditorsChange.
HasListener(list) == \E i \in 1..Len(list) : list[i].kind = "listener"

InitCompare ==
    /\ providerDisposables = <<>>
    /\ registered = {}
    /\ opening = {}
    /\ openEditors = {}
    /\ invoked = 0
    /\ compareOp = [op |-> "init"]
    /\ state = Idle
    /\ visible = TRUE
    /\ changedWhileHidden = FALSE
    /\ fileCount = 0
    /\ treeFiles = 0
    /\ refreshed = FALSE
    /\ message = "none"
    /\ inputMessage = "none"
    /\ pending = {}
    /\ cancelled = {}
    /\ progress = {}
    /\ slowArmed = {}
    /\ age = [q \in QueryIds |-> 0]
    /\ validating = {}
    /\ searchQ = <<>>
    /\ startOrder = <<>>
    /\ uiRefresh = [q \in QueryIds |-> NoInterval]
    /\ nextQ = 0
    /\ lastOp = [op |-> "init"]
    /\ vqQuery = <<>>
    /\ vqExist = <<>>
    /\ vqFolderQueries = <<>>
    /\ vqStatus = "pending"
    /\ vqError = "none"
    /\ command = [status |-> "none"]
    /\ notified = <<>>
    /\ isWindows = FALSE
    /\ clipboard = ""
    /\ infos = 0
    /\ copyOp = [op |-> "init"]
    /\ globalResourceToCompare = undefined
    /\ resourceSelectedForCompareContext = FALSE
    /\ openedDiffs = <<>>
    /\ compareLog = <<>>
    /\ workspace = [folders |-> <<>>]
    /\ removeOp = [op |-> "init"]
    /\ reveals = <<>>
    /\ workbenchState = "EMPTY"
    /\ wsFolders = <<>>
    /\ inputPatternIncludes = ""
    /\ queryDetailsShown = FALSE
    /\ searchInOp = [op |-> "init"]
    /\ resultMatches = <<>>
    /\ treeChildren = (Root :> <<>>)
    /\ collapsedNodes = {}
    /\ selection = <<>>
    /\ focus = <<>>
    /\ rerendered = {}
    /\ collapseResults = "auto"
    /\ treeOp = [op |-> "init", hangs |-> FALSE]
    /\ resultCount = 0
    /\ replaceAlls = <<>>
    /\ replaceAllActionEnabled = FALSE
    /\ messagesElement = <<>>
    /\ errorNotifications = 0
    /\ replaceOp = [op |-> "init"]

\* The handler of COMPARE_WITH_SAVED_COMMAND_ID up to its await.
CompareWithSaved ==
    \E resource \in ResourceKinds :
        /\ invoked < MaxInvocations
        /\ LET id == invoked + 1
               registerEditorListener == Len(providerDisposables) = 0
           IN  /\ providerDisposables' =
                     IF registerEditorListener
                     THEN <<[kind |-> "provider", id |-> id],
                            [kind |-> "registration", id |-> id]>>
                     ELSE providerDisposables
               /\ registered' =
                     IF registerEditorListener THEN registered \cup {id} ELSE registered
               /\ opening' =
                     IF resource = "file"
                     THEN opening \cup {[id |-> id,
                                         registerEditorListener |-> registerEditorListener]}
                     ELSE opening
               /\ invoked' = id
               /\ compareOp' = [op |-> "invoke", resource |-> resource]
        /\ UNCHANGED <<openEditors, searchVars, validateVars, saveVars, copyVars, compareFilesVars, removeVars, revealVars, includeVars, treeVars, replaceVars>>

\* await TextFileContentProvider.open(...) returns or throws.
OpenSettled ==
    \E inv \in opening, ok \in BOOLEAN :
        /\ opening' = opening \ {inv}
        /\ IF ok
           THEN /\ openEditors' = openEditors \cup {inv.id}
                /\ providerDisposables' =
                      IF inv.registerEditorListener
                      THEN Append(providerDisposables, [kind |-> "listener", id |-> inv.id])
                      ELSE providerDisposables
                /\ registered' = registered
           ELSE /\ openEditors' = openEditors
                /\ providerDisposables' = <<>>
                /\ registered' = registered \ RegistrationsIn(providerDisposables)
        /\ compareOp' = [op |-> "openSettled", ok |-> ok]
        /\ UNCHANGED <<invoked, searchVars, validateVars, saveVars, copyVars, compareFilesVars, removeVars, revealVars, includeVars, treeVars, replaceVars>>

\* editorService.onDidVisibleEditorsChange fires, after the user closed the
\* editors of closed (none, or one compare editor).
VisibleEditorsChange ==
    \E closed \in {{}} \cup {{e} : e \in openEditors} :
        /\ openEditors' = openEditors \ closed
        /\ IF HasListener(providerDisposables) /\ openEditors' = {}
           THEN /\ providerDisposables' = <<>>
                /\ registered' = registered \ RegistrationsIn(providerDisposables)
           ELSE UNCHANGED <<providerDisposables, registered>>
        /\ compareOp' = [op |-> "visibleEditorsChange"]
        /\ UNCHANGED <<opening, invoked, searchVars, validateVars, saveVars, copyVars, compareFilesVars, removeVars, revealVars, includeVars, treeVars, replaceVars>>

NextCompare ==
    \/ CompareWithSaved
    \/ OpenSettled
    \/ VisibleEditorsChange

SpecCompare == InitCompare /\ [][NextCompare]_vars


\* ----------------------------------------------------------- save / revert

\* The editor inputs of the workbench.
EditorInputs ==
    {[name |-> "a.ts", untitled |-> FALSE],
     [name |-> "b.ts", untitled |-> FALSE],
     [name |-> "Untitled-1", untitled |-> TRUE]}

\* editor.getName()
getName(editor) == editor.name

\* editor.isUntitled()
isUntitled(editor) == editor.untitled

GroupIds == {1, 2}

\* group.getEditors(EditorsOrder.MOST_RECENTLY_ACTIVE) of the two editor groups
GroupEditors(groupId) ==
    IF groupId = 1
    THEN <<[name |-> "a.ts", untitled |-> FALSE], [name |-> "b.ts", untitled |-> FALSE]>>
    ELSE <<[name |-> "b.ts", untitled |-> FALSE], [name |-> "Untitled-1", untitled |-> TRUE]>>

\* The IEditorIdentifier values getMultiSelectedEditors can return.
EditorIdentifiers ==
    {[groupId |-> g, editor |-> GroupEditors(g)[i]] : g \in GroupIds, i \in 1..2}

\* The errors editorService.save and editorService.revert reject with.
Errors == {[message |-> "EIO"]}

\* toErrorMessage(error, false)
toErrorMessage(error) == error.message

RECURSIVE join(_, _)
\* Array.prototype.join(separator) of an array of strings
join(strings, separator) ==
    IF Len(strings) = 0 THEN ""
    ELSE IF Len(strings) = 1 THEN strings[1]
    ELSE strings[1] \o separator \o join(Tail(strings), separator)

\* editors.map(({ editor }) => editor.getName())
editorNames(editors) == [i \in 1..Len(editors) |-> getName(editors[i].editor)]

RECURSIVE dirtyEditorsOf(_, _, _)
\* The inner loop of saveDirtyEditorsOfGroups, from editor i of the group on.
dirtyEditorsOf(groupId, dirty, i) ==
    IF i > Len(GroupEditors(groupId)) THEN <<>>
    ELSE (IF GroupEditors(groupId)[i] \in dirty
          THEN <<[groupId |-> groupId, editor |-> GroupEditors(groupId)[i]]>>
          ELSE <<>>)
         \o dirtyEditorsOf(groupId, dirty, i + 1)

RECURSIVE saveDirtyEditorsOfGroups(_, _)
\* saveDirtyEditorsOfGroups(accessor, groups, options): the saveable editors
saveDirtyEditorsOfGroups(groups, dirty) ==
    IF Len(groups) = 0 THEN <<>>
    ELSE dirtyEditorsOf(groups[1], dirty, 1) \o saveDirtyEditorsOfGroups(Tail(groups), dirty)

\* coalesce(contexts.map(context => editorGroupService.getGroup(context.groupId)))
coalesceGroups(contexts) == SelectSeq(contexts, LAMBDA g : g \in GroupIds)

\* The ISaveEditorsOptions each save command passes.
SaveOptions(cmd) ==
    CASE cmd = "save" -> [reason |-> "EXPLICIT", force |-> TRUE]
      [] cmd = "saveWithoutFormatting" ->
            [reason |-> "EXPLICIT", force |-> TRUE, skipSaveParticipants |-> TRUE]
      [] cmd = "saveAs" -> [reason |-> "EXPLICIT", saveAs |-> TRUE]
      [] OTHER -> [reason |-> "EXPLICIT"]

doSaveEditorsSettled_NoCatch(c, ok, error) ==
    [command |-> [c EXCEPT !.status = IF ok THEN "fulfilled" ELSE "rejected",
                           !.service = IF ok THEN "ok" ELSE "failed"],
     notified |-> <<>>]

\* doSaveEditors: await editorService.save(editors, options) returned (ok) or
\* threw error.
doSaveEditorsSettled(c, ok, error) ==
    [command |-> [c EXCEPT !.status = "fulfilled",
                           !.service = IF ok THEN "ok" ELSE "failed"],
     notified |->
        IF ok THEN <<>>
        ELSE <<[severity |-> "error",
                text |-> "Failed to save '" \o join(editorNames(c.editors), ", ")
                         \o "': " \o toErrorMessage(error)]>>]

\* REVERT_FILE_COMMAND_ID: await editorService.revert(editors, { force: true })
\* returned (ok) or threw error.
revertSettled(c, ok, error) ==
    [command |-> [c EXCEPT !.status = "fulfilled",
                           !.service = IF ok THEN "ok" ELSE "failed"],
     notified |->
        IF ok THEN <<>>
        ELSE <<[severity |-> "error",
                text |-> "Failed to revert '" \o join(editorNames(c.editors), ", ")
                         \o "': " \o toErrorMessage(error)]>>]

InitSave ==
    /\ command = [status |-> "none"]
    /\ notified = <<>>
    /\ state = Idle
    /\ visible = TRUE
    /\ changedWhileHidden = FALSE
    /\ fileCount = 0
    /\ treeFiles = 0
    /\ refreshed = FALSE
    /\ message = "none"
    /\ inputMessage = "none"
    /\ pending = {}
    /\ cancelled = {}
    /\ progress = {}
    /\ slowArmed = {}
    /\ age = [q \in QueryIds |-> 0]
    /\ validating = {}
    /\ searchQ = <<>>
    /\ startOrder = <<>>
    /\ uiRefresh = [q \in QueryIds |-> NoInterval]
    /\ nextQ = 0
    /\ lastOp = [op |-> "init"]
    /\ vqQuery = <<>>
    /\ vqExist = <<>>
    /\ vqFolderQueries = <<>>
    /\ vqStatus = "pending"
    /\ vqError = "none"
    /\ providerDisposables = <<>>
    /\ registered = {}
    /\ opening = {}
    /\ openEditors = {}
    /\ invoked = 0
    /\ compareOp = [op |-> "init"]
    /\ isWindows = FALSE
    /\ clipboard = ""
    /\ infos = 0
    /\ copyOp = [op |-> "init"]
    /\ globalResourceToCompare = undefined
    /\ resourceSelectedForCompareContext = FALSE
    /\ openedDiffs = <<>>
    /\ compareLog = <<>>
    /\ workspace = [folders |-> <<>>]
    /\ removeOp = [op |-> "init"]
    /\ reveals = <<>>
    /\ workbenchState = "EMPTY"
    /\ wsFolders = <<>>
    /\ inputPatternIncludes = ""
    /\ queryDetailsShown = FALSE
    /\ searchInOp = [op |-> "init"]
    /\ resultMatches = <<>>
    /\ treeChildren = (Root :> <<>>)
    /\ collapsedNodes = {}
    /\ selection = <<>>
    /\ focus = <<>>
    /\ rerendered = {}
    /\ collapseResults = "auto"
    /\ treeOp = [op |-> "init", hangs |-> FALSE]
    /\ resultCount = 0
    /\ replaceAlls = <<>>
    /\ replaceAllActionEnabled = FALSE
    /\ messagesElement = <<>>
    /\ errorNotifications = 0
    /\ replaceOp = [op |-> "init"]

\* A command starts: nothing was shown since.
Start(c) ==
    /\ command' = c
    /\ notified' = <<>>
    /\ UNCHANGED <<searchVars, validateVars, compareVars, copyVars, compareFilesVars, removeVars, revealVars, includeVars, treeVars, replaceVars>>

\* SAVE_FILE_COMMAND_ID, SAVE_FILE_WITHOUT_FORMATTING_COMMAND_ID and
\* SAVE_FILE_AS_COMMAND_ID: saveSelectedEditors
SaveSelected ==
    \E cmd \in {"save", "saveWithoutFormatting", "saveAs"},
       selected \in SeqsUpTo(EditorIdentifiers, MaxSelected) :
        /\ command.status # "pending"
        /\ Start([cmd |-> cmd, kind |-> "save", editors |-> selected,
                  options |-> SaveOptions(cmd), status |-> "pending",
                  service |-> "none", error |-> "none"])

\* SAVE_ALL_COMMAND_ID
SaveAll ==
    \E groups \in {<<1, 2>>, <<2, 1>>}, dirty \in SUBSET EditorInputs :
        /\ command.status # "pending"
        /\ Start([cmd |-> "saveAll", kind |-> "save",
                  editors |-> saveDirtyEditorsOfGroups(groups, dirty),
                  options |-> SaveOptions("saveAll"), status |-> "pending",
                  service |-> "none", error |-> "none"])

\* SAVE_ALL_IN_GROUP_COMMAND_ID: contexts are the group ids of
\* getMultiSelectedEditorContexts (3 is the id of no group).
SaveAllInGroup ==
    \E contexts \in SeqsUpTo(GroupIds \cup {3}, 1), groups \in {<<1, 2>>, <<2, 1>>},
       dirty \in SUBSET EditorInputs :
        /\ command.status # "pending"
        /\ Start([cmd |-> "saveAllInGroup", kind |-> "save",
                  editors |-> saveDirtyEditorsOfGroups(
                                 IF Len(contexts) = 0 THEN groups
                                 ELSE coalesceGroups(contexts),
                                 dirty),
                  options |-> SaveOptions("saveAllInGroup"), status |-> "pending",
                  service |-> "none", error |-> "none"])

revertEditors_KeepsUntitled(selected) == selected

\* REVERT_FILE_COMMAND_ID: getMultiSelectedEditors(...).filter(({ editor }) =>
\* !editor.isUntitled())
revertEditors(selected) == SelectSeq(selected, LAMBDA e : ~isUntitled(e.editor))

\* REVERT_FILE_COMMAND_ID up to its await; selected is what
\* getMultiSelectedEditors returned.
Revert ==
    \E selected \in SeqsUpTo(EditorIdentifiers, MaxSelected) :
        /\ command.status # "pending"
        /\ Start([cmd |-> "revert", kind |-> "revert",
                  selected |-> selected,
                  editors |-> revertEditors(selected),
                  options |-> [force |-> TRUE], status |-> "pending",
                  service |-> "none", error |-> "none"])

\* editorService.save or editorService.revert settles.
ServiceSettled ==
    \E ok \in BOOLEAN, error \in Errors :
        /\ command.status = "pending"
        /\ LET c == [command EXCEPT !.error = IF ok THEN "none" ELSE toErrorMessage(error)]
               r == IF command.kind = "save"
                    THEN doSaveEditorsSettled(c, ok, error)
                    ELSE revertSettled(c, ok, error)
           IN  /\ command' = r.command
               /\ notified' = r.notified
        /\ UNCHANGED <<searchVars, validateVars, compareVars, copyVars, compareFilesVars, removeVars, revealVars, includeVars, treeVars, replaceVars>>

NextSave ==
    \/ SaveSelected
    \/ SaveAll
    \/ SaveAllInGroup
    \/ Revert
    \/ ServiceSettled

SpecSave == InitSave /\ [][NextSave]_vars

\* --------------------------------------------------------------- copy path

\* The resources a command can be given, with the labels of labelService:
\* two files of the workspace folder /ws and a file outside of it.
CopyResources ==
    {[fsPath |-> "/ws/a.ts", relative |-> "a.ts"],
     [fsPath |-> "/ws/src/b.ts", relative |-> "src/b.ts"],
     [fsPath |-> "/tmp/c.txt", relative |-> "/tmp/c.txt"]}

\* labelService.getUriLabel(resource, { relative, noPrefix: true })
getUriLabel(resource, relative) ==
    IF relative THEN resource.relative ELSE resource.fsPath

resourcesToClipboard_IgnoresRelative(resources, relative) ==
    IF Len(resources) > 0
    THEN [clipboard |->
            join([i \in 1..Len(resources) |-> getUriLabel(resources[i], FALSE)],
                 IF isWindows THEN "\r\n" ELSE "\n"),
          infos |-> infos]
    ELSE [clipboard |-> clipboard, infos |-> infos + 1]

\* resourcesToClipboard(resources, relative, ...): the clipboard and the number
\* of info notifications after it.
resourcesToClipboard(resources, relative) ==
    IF Len(resources) > 0
    THEN [clipboard |->
            join([i \in 1..Len(resources) |-> getUriLabel(resources[i], relative)],
                 IF isWindows THEN "\r\n" ELSE "\n"),
          infos |-> infos]
    ELSE [clipboard |-> clipboard, infos |-> infos + 1]

InitCopy ==
    /\ isWindows \in BOOLEAN
    /\ clipboard = ""
    /\ infos = 0
    /\ copyOp = [op |-> "init"]
    /\ state = Idle
    /\ visible = TRUE
    /\ changedWhileHidden = FALSE
    /\ fileCount = 0
    /\ treeFiles = 0
    /\ refreshed = FALSE
    /\ message = "none"
    /\ inputMessage = "none"
    /\ pending = {}
    /\ cancelled = {}
    /\ progress = {}
    /\ slowArmed = {}
    /\ age = [q \in QueryIds |-> 0]
    /\ validating = {}
    /\ searchQ = <<>>
    /\ startOrder = <<>>
    /\ uiRefresh = [q \in QueryIds |-> NoInterval]
    /\ nextQ = 0
    /\ lastOp = [op |-> "init"]
    /\ vqQuery = <<>>
    /\ vqExist = <<>>
    /\ vqFolderQueries = <<>>
    /\ vqStatus = "pending"
    /\ vqError = "none"
    /\ providerDisposables = <<>>
    /\ registered = {}
    /\ opening = {}
    /\ openEditors = {}
    /\ invoked = 0
    /\ compareOp = [op |-> "init"]
    /\ command = [status |-> "none"]
    /\ notified = <<>>
    /\ globalResourceToCompare = undefined
    /\ resourceSelectedForCompareContext = FALSE
    /\ openedDiffs = <<>>
    /\ compareLog = <<>>
    /\ workspace = [folders |-> <<>>]
    /\ removeOp = [op |-> "init"]
    /\ reveals = <<>>
    /\ workbenchState = "EMPTY"
    /\ wsFolders = <<>>
    /\ inputPatternIncludes = ""
    /\ queryDetailsShown = FALSE
    /\ searchInOp = [op |-> "init"]
    /\ resultMatches = <<>>
    /\ treeChildren = (Root :> <<>>)
    /\ collapsedNodes = {}
    /\ selection = <<>>
    /\ focus = <<>>
    /\ rerendered = {}
    /\ collapseResults = "auto"
    /\ treeOp = [op |-> "init", hangs |-> FALSE]
    /\ resultCount = 0
    /\ replaceAlls = <<>>
    /\ replaceAllActionEnabled = FALSE
    /\ messagesElement = <<>>
    /\ errorNotifications = 0
    /\ replaceOp = [op |-> "init"]

\* COPY_PATH_COMMAND_ID and COPY_RELATIVE_PATH_COMMAND_ID
CopyPath ==
    \E cmd \in {"copyFilePath", "copyRelativeFilePath"},
       resources \in SeqsUpTo(CopyResources, MaxSelected) :
        /\ infos < MaxInfos
        /\ LET r == resourcesToClipboard(resources, cmd = "copyRelativeFilePath")
           IN  /\ clipboard' = r.clipboard
               /\ infos' = r.infos
        /\ copyOp' = [op |-> cmd, resources |-> resources]
        /\ UNCHANGED <<isWindows, searchVars, validateVars, compareVars, saveVars, compareFilesVars, removeVars, revealVars, includeVars, treeVars, replaceVars>>

\* 'workbench.action.files.copyPathOfActiveFile': active is the resource of
\* the active editor, if any.
CopyPathOfActiveFile ==
    \E active \in SeqsUpTo(CopyResources, 1) :
        /\ infos < MaxInfos
        /\ LET r == resourcesToClipboard(active, FALSE)
           IN  /\ clipboard' = r.clipboard
               /\ infos' = r.infos
        /\ copyOp' = [op |-> "copyPathOfActiveFile", resources |-> active]
        /\ UNCHANGED <<isWindows, searchVars, validateVars, compareVars, saveVars, compareFilesVars, removeVars, revealVars, includeVars, treeVars, replaceVars>>

NextCopy ==
    \/ CopyPath
    \/ CopyPathOfActiveFile

SpecCopy == InitCopy /\ [][NextCopy]_vars

\* ----------------------------------------------------------- compare files

\* The resources getResourceForCommand and getMultiSelectedResources return.
Uris == {"file:///a.ts", "file:///b.ts"}

\* getResourceForCommand(resource, listService, editorService): a URI or
\* undefined
CommandResources == Uris \cup {undefined}

compareFiles_NoGuard(global, rightResource) ==
    <<[leftResource |-> global, rightResource |-> rightResource]>>

\* COMPARE_RESOURCE_COMMAND_ID: the inputs it gives editorService.openEditor
\* when the module holds global and the command resolves rightResource.
compareFiles(global, rightResource) ==
    IF global # undefined /\ rightResource # undefined
    THEN <<[leftResource |-> global, rightResource |-> rightResource]>>
    ELSE <<>>

\* COMPARE_SELECTED_COMMAND_ID: the inputs it gives editorService.openEditor.
compareSelected(resources) ==
    IF Len(resources) = 2
    THEN <<[leftResource |-> resources[1], rightResource |-> resources[2]]>>
    ELSE <<>>

InitCompareFiles ==
    /\ globalResourceToCompare = undefined
    /\ resourceSelectedForCompareContext = FALSE
    /\ openedDiffs = <<>>
    /\ compareLog = <<>>
    /\ command = [status |-> "none"]
    /\ notified = <<>>
    /\ state = Idle
    /\ visible = TRUE
    /\ changedWhileHidden = FALSE
    /\ fileCount = 0
    /\ treeFiles = 0
    /\ refreshed = FALSE
    /\ message = "none"
    /\ inputMessage = "none"
    /\ pending = {}
    /\ cancelled = {}
    /\ progress = {}
    /\ slowArmed = {}
    /\ age = [q \in QueryIds |-> 0]
    /\ validating = {}
    /\ searchQ = <<>>
    /\ startOrder = <<>>
    /\ uiRefresh = [q \in QueryIds |-> NoInterval]
    /\ nextQ = 0
    /\ lastOp = [op |-> "init"]
    /\ vqQuery = <<>>
    /\ vqExist = <<>>
    /\ vqFolderQueries = <<>>
    /\ vqStatus = "pending"
    /\ vqError = "none"
    /\ providerDisposables = <<>>
    /\ registered = {}
    /\ opening = {}
    /\ openEditors = {}
    /\ invoked = 0
    /\ compareOp = [op |-> "init"]
    /\ isWindows = FALSE
    /\ clipboard = ""
    /\ infos = 0
    /\ copyOp = [op |-> "init"]
    /\ workspace = [folders |-> <<>>]
    /\ removeOp = [op |-> "init"]
    /\ reveals = <<>>
    /\ workbenchState = "EMPTY"
    /\ wsFolders = <<>>
    /\ inputPatternIncludes = ""
    /\ queryDetailsShown = FALSE
    /\ searchInOp = [op |-> "init"]
    /\ resultMatches = <<>>
    /\ treeChildren = (Root :> <<>>)
    /\ collapsedNodes = {}
    /\ selection = <<>>
    /\ focus = <<>>
    /\ rerendered = {}
    /\ collapseResults = "auto"
    /\ treeOp = [op |-> "init", hangs |-> FALSE]
    /\ resultCount = 0
    /\ replaceAlls = <<>>
    /\ replaceAllActionEnabled = FALSE
    /\ messagesElement = <<>>
    /\ errorNotifications = 0
    /\ replaceOp = [op |-> "init"]

\* SELECT_FOR_COMPARE_COMMAND_ID
SelectForCompare ==
    \E resource \in CommandResources :
        /\ Len(compareLog) < MaxCommands
        /\ globalResourceToCompare' = resource
        /\ resourceSelectedForCompareContext' = TRUE
        /\ compareLog' = Append(compareLog, [cmd |-> "selectForCompare",
                                             resource |-> resource])
        /\ UNCHANGED <<openedDiffs, searchVars, validateVars, compareVars, saveVars,
                       copyVars, removeVars, revealVars, includeVars, treeVars, replaceVars>>

\* COMPARE_SELECTED_COMMAND_ID
CompareSelected ==
    \E resources \in SeqsUpTo(Uris, MaxSelected) :
        /\ Len(compareLog) < MaxCommands
        /\ openedDiffs' = openedDiffs \o compareSelected(resources)
        /\ compareLog' = Append(compareLog, [cmd |-> "compareSelected",
                                             resources |-> resources])
        /\ UNCHANGED <<globalResourceToCompare, resourceSelectedForCompareContext,
                       searchVars, validateVars, compareVars, saveVars, copyVars, removeVars, revealVars, includeVars, treeVars, replaceVars>>

\* COMPARE_RESOURCE_COMMAND_ID ('compareFiles')
CompareFiles ==
    \E resource \in CommandResources :
        /\ Len(compareLog) < MaxCommands
        /\ openedDiffs' = openedDiffs \o compareFiles(globalResourceToCompare, resource)
        /\ compareLog' = Append(compareLog, [cmd |-> "compareFiles",
                                             resource |-> resource])
        /\ UNCHANGED <<globalResourceToCompare, resourceSelectedForCompareContext,
                       searchVars, validateVars, compareVars, saveVars, copyVars, removeVars, revealVars, includeVars, treeVars, replaceVars>>

NextCompareFiles ==
    \/ SelectForCompare
    \/ CompareSelected
    \/ CompareFiles

SpecCompareFiles == InitCompareFiles /\ [][NextCompareFiles]_vars

\* ------------------------------------------------------ remove root folder

\* The URIs of the folders a workspace can hold.
RootUris == {"file:///r1", "file:///r2"}

\* The resources a selection of the explorer can hold: roots and a folder
\* below a root.
SelectableUris == RootUris \cup {"file:///r1/src"}

\* The workspaces: their folders are an array without duplicates.
Workspaces ==
    {[folders |-> f] : f \in {g \in SeqsUpTo(RootUris, Cardinality(RootUris)) :
                                 \A i, j \in 1..Len(g) : g[i] = g[j] => i = j}}

\* isEqual(f.uri, r) of two URIs of the same scheme
isEqual(a, b) == a = b

removeRootFolderResources_NoFilter(ws, selected) == selected

\* REMOVE_ROOT_FOLDER_COMMAND_ID: getMultiSelectedResources(...).filter(r =>
\* workspace.folders.some(f => isEqual(f.uri, r)))
removeRootFolderResources(ws, selected) ==
    SelectSeq(selected,
              LAMBDA r : \E i \in 1..Len(ws.folders) : isEqual(ws.folders[i], r))

InitRemove ==
    /\ workspace \in Workspaces
    /\ removeOp = [op |-> "init"]
    /\ command = [status |-> "none"]
    /\ notified = <<>>
    /\ state = Idle
    /\ visible = TRUE
    /\ changedWhileHidden = FALSE
    /\ fileCount = 0
    /\ treeFiles = 0
    /\ refreshed = FALSE
    /\ message = "none"
    /\ inputMessage = "none"
    /\ pending = {}
    /\ cancelled = {}
    /\ progress = {}
    /\ slowArmed = {}
    /\ age = [q \in QueryIds |-> 0]
    /\ validating = {}
    /\ searchQ = <<>>
    /\ startOrder = <<>>
    /\ uiRefresh = [q \in QueryIds |-> NoInterval]
    /\ nextQ = 0
    /\ lastOp = [op |-> "init"]
    /\ vqQuery = <<>>
    /\ vqExist = <<>>
    /\ vqFolderQueries = <<>>
    /\ vqStatus = "pending"
    /\ vqError = "none"
    /\ providerDisposables = <<>>
    /\ registered = {}
    /\ opening = {}
    /\ openEditors = {}
    /\ invoked = 0
    /\ compareOp = [op |-> "init"]
    /\ isWindows = FALSE
    /\ clipboard = ""
    /\ infos = 0
    /\ copyOp = [op |-> "init"]
    /\ globalResourceToCompare = undefined
    /\ resourceSelectedForCompareContext = FALSE
    /\ openedDiffs = <<>>
    /\ compareLog = <<>>
    /\ reveals = <<>>
    /\ workbenchState = "EMPTY"
    /\ wsFolders = <<>>
    /\ inputPatternIncludes = ""
    /\ queryDetailsShown = FALSE
    /\ searchInOp = [op |-> "init"]
    /\ resultMatches = <<>>
    /\ treeChildren = (Root :> <<>>)
    /\ collapsedNodes = {}
    /\ selection = <<>>
    /\ focus = <<>>
    /\ rerendered = {}
    /\ collapseResults = "auto"
    /\ treeOp = [op |-> "init", hangs |-> FALSE]
    /\ resultCount = 0
    /\ replaceAlls = <<>>
    /\ replaceAllActionEnabled = FALSE
    /\ messagesElement = <<>>
    /\ errorNotifications = 0
    /\ replaceOp = [op |-> "init"]

\* REMOVE_ROOT_FOLDER_COMMAND_ID: selected is what getMultiSelectedResources
\* returned; removeFolders is what workspaceEditingService.removeFolders got.
RemoveRootFolder ==
    \E selected \in SeqsUpTo(SelectableUris, MaxSelected) :
        /\ removeOp' = [op |-> "removeRootFolder", selected |-> selected,
                        folders |-> workspace.folders,
                        removeFolders |-> removeRootFolderResources(workspace, selected)]
        /\ UNCHANGED <<workspace, searchVars, validateVars, compareVars, saveVars,
                       copyVars, compareFilesVars, revealVars, includeVars, treeVars, replaceVars>>

\* The folders of the workspace change (onDidChangeWorkspaceFolders).
WorkspaceFoldersChange ==
    \E ws \in Workspaces :
        /\ ws # workspace
        /\ workspace' = ws
        /\ UNCHANGED <<removeOp, searchVars, validateVars, compareVars, saveVars,
                       copyVars, compareFilesVars, revealVars, includeVars, treeVars, replaceVars>>

NextRemove ==
    \/ RemoveRootFolder
    \/ WorkspaceFoldersChange

SpecRemove == InitRemove /\ [][NextRemove]_vars

\* ------------------------------------------------------ reveal in explorer

\* The resources revealInExplorer can be asked to reveal.
RevealUris == {"file:///r1/src/a.ts", "file:///tmp/out.ts"}

\* contextService.isInsideWorkspace(uri), the workspace folder being file:///r1
isInsideWorkspace(uri) == uri = "file:///r1/src/a.ts"

\* A call an invocation makes on a view or a service.
Call(target, method, arg) == [target |-> target, method |-> method, arg |-> arg]

revealAfterOpenViewlet_FocusBeforeSelect(r, explorerView, openEditorsView) ==
    IF r.uri # undefined /\ isInsideWorkspace(r.uri)
    THEN IF explorerView
         THEN [r EXCEPT !.explorerView = explorerView,
                        !.openEditorsView = openEditorsView,
                        !.calls = r.calls \o
                            <<Call("explorerView", "setExpanded", "true"),
                              Call("explorerView", "focus", ""),
                              Call("explorerService", "select", r.uri)>>,
                        !.pc = "select"]
         ELSE [r EXCEPT !.explorerView = explorerView,
                        !.openEditorsView = openEditorsView, !.pc = "done"]
    ELSE IF openEditorsView
         THEN [r EXCEPT !.explorerView = explorerView,
                        !.openEditorsView = openEditorsView,
                        !.calls = r.calls \o
                            <<Call("openEditorsView", "setExpanded", "true"),
                              Call("openEditorsView", "focus", "")>>,
                        !.pc = "done"]
         ELSE [r EXCEPT !.explorerView = explorerView,
                        !.openEditorsView = openEditorsView, !.pc = "done"]

\* REVEAL_IN_EXPLORER_COMMAND_ID from the return of await openViewlet to the
\* next await or the end; explorerView and openEditorsView tell whether
\* viewlet.getExplorerView() and viewlet.getOpenEditorsView() return a view.
revealAfterOpenViewlet(r, explorerView, openEditorsView) ==
    IF r.uri # undefined /\ isInsideWorkspace(r.uri)
    THEN IF explorerView
         THEN [r EXCEPT !.explorerView = explorerView,
                        !.openEditorsView = openEditorsView,
                        !.calls = r.calls \o
                            <<Call("explorerView", "setExpanded", "true"),
                              Call("explorerService", "select", r.uri)>>,
                        !.pc = "select"]
         ELSE [r EXCEPT !.explorerView = explorerView,
                        !.openEditorsView = openEditorsView, !.pc = "done"]
    ELSE IF openEditorsView
         THEN [r EXCEPT !.explorerView = explorerView,
                        !.openEditorsView = openEditorsView,
                        !.calls = r.calls \o
                            <<Call("openEditorsView", "setExpanded", "true"),
                              Call("openEditorsView", "focus", "")>>,
                        !.pc = "done"]
         ELSE [r EXCEPT !.explorerView = explorerView,
                        !.openEditorsView = openEditorsView, !.pc = "done"]

\* REVEAL_IN_EXPLORER_COMMAND_ID after await explorerService.select returned
revealAfterSelect(r) ==
    [r EXCEPT !.calls = Append(r.calls, Call("explorerView", "focus", "")),
              !.pc = "done"]

InitReveal ==
    /\ reveals = <<>>
    /\ command = [status |-> "none"]
    /\ notified = <<>>
    /\ state = Idle
    /\ visible = TRUE
    /\ changedWhileHidden = FALSE
    /\ fileCount = 0
    /\ treeFiles = 0
    /\ refreshed = FALSE
    /\ message = "none"
    /\ inputMessage = "none"
    /\ pending = {}
    /\ cancelled = {}
    /\ progress = {}
    /\ slowArmed = {}
    /\ age = [q \in QueryIds |-> 0]
    /\ validating = {}
    /\ searchQ = <<>>
    /\ startOrder = <<>>
    /\ uiRefresh = [q \in QueryIds |-> NoInterval]
    /\ nextQ = 0
    /\ lastOp = [op |-> "init"]
    /\ vqQuery = <<>>
    /\ vqExist = <<>>
    /\ vqFolderQueries = <<>>
    /\ vqStatus = "pending"
    /\ vqError = "none"
    /\ providerDisposables = <<>>
    /\ registered = {}
    /\ opening = {}
    /\ openEditors = {}
    /\ invoked = 0
    /\ compareOp = [op |-> "init"]
    /\ isWindows = FALSE
    /\ clipboard = ""
    /\ infos = 0
    /\ copyOp = [op |-> "init"]
    /\ globalResourceToCompare = undefined
    /\ resourceSelectedForCompareContext = FALSE
    /\ openedDiffs = <<>>
    /\ compareLog = <<>>
    /\ workspace = [folders |-> <<>>]
    /\ removeOp = [op |-> "init"]
    /\ workbenchState = "EMPTY"
    /\ wsFolders = <<>>
    /\ inputPatternIncludes = ""
    /\ queryDetailsShown = FALSE
    /\ searchInOp = [op |-> "init"]
    /\ resultMatches = <<>>
    /\ treeChildren = (Root :> <<>>)
    /\ collapsedNodes = {}
    /\ selection = <<>>
    /\ focus = <<>>
    /\ rerendered = {}
    /\ collapseResults = "auto"
    /\ treeOp = [op |-> "init", hangs |-> FALSE]
    /\ resultCount = 0
    /\ replaceAlls = <<>>
    /\ replaceAllActionEnabled = FALSE
    /\ messagesElement = <<>>
    /\ errorNotifications = 0
    /\ replaceOp = [op |-> "init"]

\* REVEAL_IN_EXPLORER_COMMAND_ID up to await viewletService.openViewlet
RevealInExplorer ==
    \E uri \in RevealUris \cup {undefined} :
        /\ Len(reveals) < MaxReveals
        /\ reveals' = Append(reveals,
                             [uri |-> uri, pc |-> "openViewlet",
                              explorerView |-> FALSE, openEditorsView |-> FALSE,
                              calls |-> <<Call("viewletService", "openViewlet",
                                               "workbench.view.explorer")>>])
        /\ UNCHANGED <<searchVars, validateVars, compareVars, saveVars, copyVars,
                       compareFilesVars, removeVars, includeVars, treeVars, replaceVars>>

\* viewletService.openViewlet settles: it returns the viewlet (ok) or rejects.
OpenViewletSettled ==
    \E i \in 1..Len(reveals), ok \in BOOLEAN, explorerView \in BOOLEAN,
       openEditorsView \in BOOLEAN :
        /\ reveals[i].pc = "openViewlet"
        /\ ~ok => (~explorerView /\ ~openEditorsView)
        /\ reveals' =
              [reveals EXCEPT ![i] =
                  IF ok
                  THEN revealAfterOpenViewlet(reveals[i], explorerView, openEditorsView)
                  ELSE [reveals[i] EXCEPT !.pc = "rejected"]]
        /\ UNCHANGED <<searchVars, validateVars, compareVars, saveVars, copyVars,
                       compareFilesVars, removeVars, includeVars, treeVars, replaceVars>>

\* explorerService.select settles: it returns (ok) or rejects.
SelectSettled ==
    \E i \in 1..Len(reveals), ok \in BOOLEAN :
        /\ reveals[i].pc = "select"
        /\ reveals' =
              [reveals EXCEPT ![i] =
                  IF ok THEN revealAfterSelect(reveals[i])
                  ELSE [reveals[i] EXCEPT !.pc = "rejected"]]
        /\ UNCHANGED <<searchVars, validateVars, compareVars, saveVars, copyVars,
                       compareFilesVars, removeVars, includeVars, treeVars, replaceVars>>

NextReveal ==
    \/ RevealInExplorer
    \/ OpenViewletSettled
    \/ SelectSettled

SpecReveal == InitReveal /\ [][NextReveal]_vars

\* ------------------------------------------------------- search in folders

\* A URI: its scheme and the segments of its path.
Uri(scheme, path) == [scheme |-> scheme, path |-> path]

\* The folders a workspace can hold: two with the name "app", one named "lib".
RootFolders ==
    {[uri |-> Uri("file", <<"w", "app">>), name |-> "app"],
     [uri |-> Uri("file", <<"w", "lib">>), name |-> "lib"],
     [uri |-> Uri("file", <<"x", "app">>), name |-> "app"]}

\* workspace.folders in each workbench state: none when EMPTY, one when FOLDER,
\* any list without duplicates when WORKSPACE.
FoldersIn(wbState) ==
    LET lists == {f \in SeqsUpTo(RootFolders, Cardinality(RootFolders)) :
                     \A i, j \in 1..Len(f) : f[i] = f[j] => i = j}
    IN  CASE wbState = "EMPTY" -> {<<>>}
          [] wbState = "FOLDER" -> {f \in lists : Len(f) = 1}
          [] OTHER -> lists

\* The resources searchInFolders can be given: the root folders, a folder
\* below each, a file outside of them and an untitled resource.
SearchResources ==
    {f.uri : f \in RootFolders}
    \cup {Uri("file", Append(f.uri.path, "src")) : f \in RootFolders}
    \cup {Uri("file", <<"tmp", "out">>), Uri("untitled", <<"Untitled-1">>)}

\* uri.fsPath of a file URI
uriFsPath(uri) == "/" \o join(uri.path, "/")

\* The length of the longest common prefix of the sequences a and b.
CommonPrefix(a, b) ==
    CHOOSE k \in 0..Min(Len(a), Len(b)) :
        /\ SubSeq(a, 1, k) = SubSeq(b, 1, k)
        /\ k < Min(Len(a), Len(b)) => a[k + 1] # b[k + 1]

\* relativePath(from, to) of vs/base/common/resources: undefined across
\* schemes, else the posix relative path ('' for the same path).
relativePath(from, to) ==
    IF from.scheme # to.scheme THEN undefined
    ELSE LET k == CommonPrefix(from.path, to.path)
         IN  join([i \in 1..(Len(from.path) - k) |-> ".."]
                  \o SubSeq(to.path, k + 1, Len(to.path)), "/")

\* contextService.getWorkspaceFolder(resource): the folder of folders that
\* holds the resource, as a list of at most one folder.
getWorkspaceFolder(folders, resource) ==
    SelectSeq(folders,
              LAMBDA f : /\ f.uri.scheme = resource.scheme
                         /\ Len(f.uri.path) <= Len(resource.path)
                         /\ SubSeq(resource.path, 1, Len(f.uri.path)) = f.uri.path)

folderPathOf_AlwaysRelative(wbState, folders, resource) ==
    IF wbState = "FOLDER"
    THEN LET folderPath == relativePath(folders[1].uri, resource)
         IN  IF folderPath = undefined \/ folderPath = "" THEN <<>>
             ELSE IF folderPath # "." THEN <<"./" \o folderPath>>
             ELSE <<folderPath>>
    ELSE LET owning == getWorkspaceFolder(folders, resource)
         IN  IF Len(owning) = 0 THEN <<>>
             ELSE LET owningFolder == owning[1]
                      relPath == relativePath(owningFolder.uri, resource)
                  IN  IF relPath = "" THEN <<"./" \o owningFolder.name>>
                      ELSE <<"./" \o owningFolder.name \o "/" \o relPath>>

\* The body of resources.forEach in searchInFolders: the folderPath pushed for
\* one resource, as a list of at most one path.
folderPathOf(wbState, folders, resource) ==
    IF wbState = "FOLDER"
    THEN LET folderPath == relativePath(folders[1].uri, resource)
         IN  IF folderPath = undefined \/ folderPath = "" THEN <<>>
             ELSE IF folderPath # "." THEN <<"./" \o folderPath>>
             ELSE <<folderPath>>
    ELSE LET owning == getWorkspaceFolder(folders, resource)
         IN  IF Len(owning) = 0 THEN <<>>
             ELSE LET owningFolder == owning[1]
                      owningRootName == owningFolder.name
                      isUniqueFolder ==
                          Len(SelectSeq(folders,
                                        LAMBDA f : f.name = owningRootName)) = 1
                      relPath == relativePath(owningFolder.uri, resource)
                  IN  IF isUniqueFolder
                      THEN IF relPath = "" THEN <<"./" \o owningFolder.name>>
                           ELSE <<"./" \o owningFolder.name \o "/" \o relPath>>
                      ELSE <<uriFsPath(resource)>>

RECURSIVE folderPathsOf(_, _, _)
\* folderPaths after resources.forEach
folderPathsOf(wbState, folders, resources) ==
    IF Len(resources) = 0 THEN <<>>
    ELSE folderPathOf(wbState, folders, resources[1])
         \o folderPathsOf(wbState, folders, Tail(resources))

\* searchInFolders(resources): the value of the include input and whether the
\* query details are shown after it; shown is showsFileTypes() before it.
searchInFolders(wbState, folders, resources, shown) ==
    LET folderPaths == folderPathsOf(wbState, folders, resources)
    IN  IF Len(folderPaths) = 0 \/ \E i \in 1..Len(folderPaths) : folderPaths[i] = "."
        THEN [inputPatternIncludes |-> "", queryDetailsShown |-> shown]
        ELSE [inputPatternIncludes |-> join(folderPaths, ", "),
              queryDetailsShown |-> TRUE]

InitInclude ==
    /\ workbenchState \in {"EMPTY", "FOLDER", "WORKSPACE"}
    /\ wsFolders \in FoldersIn(workbenchState)
    /\ inputPatternIncludes \in {"", "*.ts"}
    /\ queryDetailsShown \in BOOLEAN
    /\ searchInOp = [op |-> "init"]
    /\ command = [status |-> "none"]
    /\ notified = <<>>
    /\ state = Idle
    /\ visible = TRUE
    /\ changedWhileHidden = FALSE
    /\ fileCount = 0
    /\ treeFiles = 0
    /\ refreshed = FALSE
    /\ message = "none"
    /\ inputMessage = "none"
    /\ pending = {}
    /\ cancelled = {}
    /\ progress = {}
    /\ slowArmed = {}
    /\ age = [q \in QueryIds |-> 0]
    /\ validating = {}
    /\ searchQ = <<>>
    /\ startOrder = <<>>
    /\ uiRefresh = [q \in QueryIds |-> NoInterval]
    /\ nextQ = 0
    /\ lastOp = [op |-> "init"]
    /\ vqQuery = <<>>
    /\ vqExist = <<>>
    /\ vqFolderQueries = <<>>
    /\ vqStatus = "pending"
    /\ vqError = "none"
    /\ providerDisposables = <<>>
    /\ registered = {}
    /\ opening = {}
    /\ openEditors = {}
    /\ invoked = 0
    /\ compareOp = [op |-> "init"]
    /\ isWindows = FALSE
    /\ clipboard = ""
    /\ infos = 0
    /\ copyOp = [op |-> "init"]
    /\ globalResourceToCompare = undefined
    /\ resourceSelectedForCompareContext = FALSE
    /\ openedDiffs = <<>>
    /\ compareLog = <<>>
    /\ workspace = [folders |-> <<>>]
    /\ removeOp = [op |-> "init"]
    /\ reveals = <<>>
    /\ resultMatches = <<>>
    /\ treeChildren = (Root :> <<>>)
    /\ collapsedNodes = {}
    /\ selection = <<>>
    /\ focus = <<>>
    /\ rerendered = {}
    /\ collapseResults = "auto"
    /\ treeOp = [op |-> "init", hangs |-> FALSE]
    /\ resultCount = 0
    /\ replaceAlls = <<>>
    /\ replaceAllActionEnabled = FALSE
    /\ messagesElement = <<>>
    /\ errorNotifications = 0
    /\ replaceOp = [op |-> "init"]

\* searchInFolders(resources), once; no resources at all is the empty list.
SearchInFolders ==
    \E resources \in SeqsUpTo(SearchResources, MaxSelected) :
        /\ searchInOp.op = "init"
        /\ LET r == searchInFolders(workbenchState, wsFolders, resources,
                                    queryDetailsShown)
           IN  /\ inputPatternIncludes' = r.inputPatternIncludes
               /\ queryDetailsShown' = r.queryDetailsShown
        /\ searchInOp' = [op |-> "searchInFolders", resources |-> resources]
        /\ UNCHANGED <<workbenchState, wsFolders, searchVars, validateVars,
                       compareVars, saveVars, copyVars, compareFilesVars, removeVars,
                       revealVars, treeVars, replaceVars>>

NextInclude == SearchInFolders

SpecInclude == InitInclude /\ [][NextInclude]_vars

\* -------------------------------------------------------------- result tree

FolderMatch(d) == Element("FolderMatch", d, 0, 0)
FileMatch(d, i) == Element("FileMatch", d, i, 0)
Match(d, i, j) == Element("Match", d, i, j)

\* The file matches a search result can hold: two of folder 1, one of folder 2.
FileMatches == {FileMatch(1, 1), FileMatch(1, 2), FileMatch(2, 1)}

\* The search results with at least one match: some file matches of folder 1
\* or 2, each with a non-empty set of matches.
SearchResults ==
    UNION {[files -> (SUBSET (1..MaxMatches)) \ {{}}] :
              files \in (SUBSET FileMatches) \ {{}}}

Range(seq) == {seq[i] : i \in 1..Len(seq)}

\* The numbers of the set ns in ascending order (sort(searchMatchComparer)).
Sorted(ns) ==
    [k \in 1..Cardinality(ns) |->
        CHOOSE n \in ns : Cardinality({m \in ns : m <= n}) = k]

\* createFileIterator(fileMatch): the matches of the file, sorted
createFileIterator(result, fileMatch) ==
    LET js == Sorted(result[fileMatch])
    IN  [k \in 1..Len(js) |-> Match(fileMatch.folder, fileMatch.file, js[k])]

\* createFolderIterator(folderMatch): the file matches of the folder, sorted
createFolderIterator(result, d) ==
    LET is == Sorted({f.file : f \in {g \in DOMAIN result : g.folder = d}})
    IN  [k \in 1..Len(is) |-> FileMatch(d, is[k])]

\* createResultIterator(): the children of every node of the tree that
\* setChildren(null, ...) builds: the folder matches that are not empty, or the
\* file matches of the only one, and below them the matches.
createResultIterator(result) ==
    LET folderMatches == Sorted({f.folder : f \in DOMAIN result})
        top == IF Len(folderMatches) = 1
               THEN createFolderIterator(result, folderMatches[1])
               ELSE [k \in 1..Len(folderMatches) |-> FolderMatch(folderMatches[k])]
    IN  [n \in {Root} \cup Range(top) \cup DOMAIN result |->
            IF n = Root THEN top
            ELSE IF n.kind = "FolderMatch" THEN createFolderIterator(result, n.folder)
            ELSE createFileIterator(result, n)]

RECURSIVE rowsOf(_, _, _)
\* The rows the tree shows for nodes and what is below them: every node, then
\* its children unless it is collapsed.
rowsOf(children, collapsed, nodes) ==
    IF Len(nodes) = 0 THEN <<>>
    ELSE <<nodes[1]>>
         \o (IF nodes[1].kind = "Match" \/ nodes[1] \in collapsed THEN <<>>
             ELSE rowsOf(children, collapsed, children[nodes[1]]))
         \o rowsOf(children, collapsed, Tail(nodes))

\* The rows of the tree, top to bottom.
Rows(children, collapsed) == rowsOf(children, collapsed, children[Root])

\* The tree as a record.
T == [children |-> treeChildren, collapsed |-> collapsedNodes,
      selection |-> selection, focus |-> focus]

\* The index a navigator created by tree.navigate(start) starts at: the row of
\* start, or the position before the first row when there is no start or
\* start is not shown. start is a list of at most one element.
navigate(t, start) ==
    LET rows == Rows(t.children, t.collapsed)
    IN  IF start # <<>> /\ start[1] \in Range(rows)
        THEN CHOOSE i \in 1..Len(rows) : rows[i] = start[1]
        ELSE 0

\* navigator.current(): the element of row index, as a list of at most one
\* element (empty for null).
current(t, index) ==
    LET rows == Rows(t.children, t.collapsed)
    IN  IF index < 1 \/ index > Len(rows) THEN <<>> ELSE <<rows[index]>>

\* tree.expand(element)
expand(t, element) == [t EXCEPT !.collapsed = t.collapsed \ {element}]

\* tree.setFocus([element], getSelectionKeyboardEvent(...)); the resource
\* navigator (openOnFocus) sets the selection to the focus.
setFocus(t, elements) == [t EXCEPT !.focus = elements, !.selection = elements]

RECURSIVE expandUntilMatch(_, _)
\* The loop 'Expand until first child is a Match' of selectNextMatch, the
\* navigator being at row index: the tree and the element it ends with. With
\* no row at index the loop does not end (hangs).
expandUntilMatch(t, index) ==
    LET next == current(t, index)
    IN  IF next = <<>> THEN [t |-> t, next |-> next, hangs |-> TRUE]
        ELSE IF next[1].kind = "Match" THEN [t |-> t, next |-> next, hangs |-> FALSE]
        ELSE expandUntilMatch(IF next[1] \in t.collapsed THEN expand(t, next[1]) ELSE t,
                              index + 1)

selectNextMatch_NoInitialExpand(t) ==
    LET selected == t.selection
        index == navigate(t, selected) + 1
        r == expandUntilMatch(t, IF current(t, index) = <<>> THEN 1 ELSE index)
    IN  IF r.hangs THEN [t |-> r.t, hangs |-> TRUE]
        ELSE [t |-> setFocus(r.t, r.next), hangs |-> FALSE]

\* selectNextMatch(): the tree after it, or that it does not return.
selectNextMatch(t) ==
    LET selected == t.selection
        t1 == IF /\ selected # <<>>
                 /\ selected[1].kind # "Match"
                 /\ selected[1] \in t.collapsed
              THEN expand(t, selected[1])
              ELSE t
        index == navigate(t1, selected) + 1
        r == expandUntilMatch(t1, IF current(t1, index) = <<>> THEN 1 ELSE index)
    IN  IF r.hangs THEN [t |-> r.t, hangs |-> TRUE]
        ELSE [t |-> setFocus(r.t, r.next), hangs |-> FALSE]

RECURSIVE stepBack(_, _)
\* The loop 'Select previous until find a Match or a collapsed item' of
\* selectPreviousMatch, the navigator being at row index: the row it stops at
\* (0 when the tree shows no row and the loop does not end).
stepBack(t, index) ==
    LET prev == current(t, index)
        last == Len(Rows(t.children, t.collapsed))
    IN  IF prev = <<>> THEN (IF last = 0 THEN 0 ELSE stepBack(t, last))
        ELSE IF prev[1].kind # "Match" /\ prev[1] \notin t.collapsed
             THEN stepBack(t, index - 1)
        ELSE index

RECURSIVE expandUntilLastMatch(_, _)
\* The loop 'Expand until last child is a Match' of selectPreviousMatch, the
\* navigator being at row index (a Match or a collapsed item).
expandUntilLastMatch(t, index) ==
    LET prev == current(t, index)
    IN  IF prev = <<>> THEN [t |-> t, prev |-> prev, hangs |-> TRUE]
        ELSE IF prev[1].kind = "Match" THEN [t |-> t, prev |-> prev, hangs |-> FALSE]
        ELSE LET nextItem == current(t, index + 1)
                 t1 == expand(t, prev[1])
             IN  expandUntilLastMatch(
                     t1,
                     IF nextItem # <<>> THEN navigate(t1, nextItem) - 1
                     ELSE Len(Rows(t1.children, t1.collapsed)))

selectPreviousMatch_NoExpand(t) ==
    LET selected == t.selection
        index == stepBack(t, navigate(t, selected) - 1)
    IN  IF index = 0 THEN [t |-> t, hangs |-> TRUE]
        ELSE [t |-> setFocus(t, current(t, index)), hangs |-> FALSE]

\* selectPreviousMatch(): the tree after it, or that it does not return.
selectPreviousMatch(t) ==
    LET selected == t.selection
        r == expandUntilLastMatch(t, stepBack(t, navigate(t, selected) - 1))
    IN  IF r.hangs THEN [t |-> r.t, hangs |-> TRUE]
        ELSE [t |-> setFocus(r.t, r.prev), hangs |-> FALSE]

InitNavigate ==
    /\ resultMatches \in SearchResults
    /\ treeChildren = createResultIterator(resultMatches)
    /\ collapsedNodes \in SUBSET (DOMAIN treeChildren \ {Root})
    /\ selection \in {<<>>} \cup {<<e>> : e \in Range(Rows(treeChildren, collapsedNodes))}
    /\ focus = selection
    /\ rerendered = {}
    /\ collapseResults = "auto"
    /\ treeOp = [op |-> "init", hangs |-> FALSE]
    /\ command = [status |-> "none"]
    /\ notified = <<>>
    /\ state = Idle
    /\ visible = TRUE
    /\ changedWhileHidden = FALSE
    /\ fileCount = 0
    /\ treeFiles = 0
    /\ refreshed = FALSE
    /\ message = "none"
    /\ inputMessage = "none"
    /\ pending = {}
    /\ cancelled = {}
    /\ progress = {}
    /\ slowArmed = {}
    /\ age = [q \in QueryIds |-> 0]
    /\ validating = {}
    /\ searchQ = <<>>
    /\ startOrder = <<>>
    /\ uiRefresh = [q \in QueryIds |-> NoInterval]
    /\ nextQ = 0
    /\ lastOp = [op |-> "init"]
    /\ vqQuery = <<>>
    /\ vqExist = <<>>
    /\ vqFolderQueries = <<>>
    /\ vqStatus = "pending"
    /\ vqError = "none"
    /\ providerDisposables = <<>>
    /\ registered = {}
    /\ opening = {}
    /\ openEditors = {}
    /\ invoked = 0
    /\ compareOp = [op |-> "init"]
    /\ isWindows = FALSE
    /\ clipboard = ""
    /\ infos = 0
    /\ copyOp = [op |-> "init"]
    /\ globalResourceToCompare = undefined
    /\ resourceSelectedForCompareContext = FALSE
    /\ openedDiffs = <<>>
    /\ compareLog = <<>>
    /\ workspace = [folders |-> <<>>]
    /\ removeOp = [op |-> "init"]
    /\ reveals = <<>>
    /\ workbenchState = "EMPTY"
    /\ wsFolders = <<>>
    /\ inputPatternIncludes = ""
    /\ queryDetailsShown = FALSE
    /\ searchInOp = [op |-> "init"]
    /\ resultCount = 0
    /\ replaceAlls = <<>>
    /\ replaceAllActionEnabled = FALSE
    /\ messagesElement = <<>>
    /\ errorNotifications = 0
    /\ replaceOp = [op |-> "init"]

\* The tree after a handler that returned the record r.
CommitTree(op, r) ==
    /\ collapsedNodes' = r.t.collapsed
    /\ selection' = r.t.selection
    /\ focus' = r.t.focus
    /\ treeOp' = [op |-> op, hangs |-> r.hangs]
    /\ UNCHANGED <<resultMatches, treeChildren, rerendered, collapseResults,
                   searchVars, validateVars, compareVars, saveVars, copyVars,
                   compareFilesVars, removeVars, revealVars, includeVars, replaceVars>>

\* selectNextMatch()
SelectNextMatch ==
    /\ ~treeOp.hangs
    /\ CommitTree("selectNextMatch", selectNextMatch(T))

\* selectPreviousMatch()
SelectPreviousMatch ==
    /\ ~treeOp.hangs
    /\ CommitTree("selectPreviousMatch", selectPreviousMatch(T))

NextNavigate ==
    \/ SelectNextMatch
    \/ SelectPreviousMatch

SpecNavigate == InitNavigate /\ [][NextNavigate]_vars

\* The same handlers on every result tree, the empty one included.
InitNavigateAny ==
    /\ resultMatches \in SearchResults \cup {<<>>}
    /\ treeChildren = createResultIterator(resultMatches)
    /\ collapsedNodes \in SUBSET (DOMAIN treeChildren \ {Root})
    /\ selection \in {<<>>} \cup {<<e>> : e \in Range(Rows(treeChildren, collapsedNodes))}
    /\ focus = selection
    /\ rerendered = {}
    /\ collapseResults = "auto"
    /\ treeOp = [op |-> "init", hangs |-> FALSE]
    /\ command = [status |-> "none"]
    /\ notified = <<>>
    /\ state = Idle
    /\ visible = TRUE
    /\ changedWhileHidden = FALSE
    /\ fileCount = 0
    /\ treeFiles = 0
    /\ refreshed = FALSE
    /\ message = "none"
    /\ inputMessage = "none"
    /\ pending = {}
    /\ cancelled = {}
    /\ progress = {}
    /\ slowArmed = {}
    /\ age = [q \in QueryIds |-> 0]
    /\ validating = {}
    /\ searchQ = <<>>
    /\ startOrder = <<>>
    /\ uiRefresh = [q \in QueryIds |-> NoInterval]
    /\ nextQ = 0
    /\ lastOp = [op |-> "init"]
    /\ vqQuery = <<>>
    /\ vqExist = <<>>
    /\ vqFolderQueries = <<>>
    /\ vqStatus = "pending"
    /\ vqError = "none"
    /\ providerDisposables = <<>>
    /\ registered = {}
    /\ opening = {}
    /\ openEditors = {}
    /\ invoked = 0
    /\ compareOp = [op |-> "init"]
    /\ isWindows = FALSE
    /\ clipboard = ""
    /\ infos = 0
    /\ copyOp = [op |-> "init"]
    /\ globalResourceToCompare = undefined
    /\ resourceSelectedForCompareContext = FALSE
    /\ openedDiffs = <<>>
    /\ compareLog = <<>>
    /\ workspace = [folders |-> <<>>]
    /\ removeOp = [op |-> "init"]
    /\ reveals = <<>>
    /\ workbenchState = "EMPTY"
    /\ wsFolders = <<>>
    /\ inputPatternIncludes = ""
    /\ queryDetailsShown = FALSE
    /\ searchInOp = [op |-> "init"]
    /\ resultCount = 0
    /\ replaceAlls = <<>>
    /\ replaceAllActionEnabled = FALSE
    /\ messagesElement = <<>>
    /\ errorNotifications = 0
    /\ replaceOp = [op |-> "init"]

SpecNavigateAny == InitNavigateAny /\ [][NextNavigate]_vars

\* ------------------------------------------------------------ refreshTree

\* The elements the tree holds: its nodes with children and their children.
TreeElements(children) ==
    DOMAIN children \cup UNION {Range(children[n]) : n \in DOMAIN children}

\* createFolderIterator: the collapsed state given to the node of a file
\* match the tree does not hold yet.
collapsedWhenNew(result, fileMatch, collapse) ==
    \/ collapse = "alwaysCollapse"
    \/ Cardinality(result[fileMatch]) > CollapseThreshold /\ collapse # "alwaysExpand"

\* The events of searchResult.onChange that refreshTree can be given, and no
\* event: elements are file matches the result and the tree hold.
ChangeEvents(result, children) ==
    {[kind |-> k, elements |-> {}] : k \in {"none", "added", "removed"}}
    \cup {[kind |-> "changed", elements |-> es] :
             es \in (SUBSET (DOMAIN result \cap DOMAIN children)) \ {{}}}

refreshTreeOf_AlwaysWhole(t, result, event, collapse) ==
    LET children == createResultIterator(result)
    IN  [children |-> children,
         collapsed |-> {n \in t.collapsed : n \in DOMAIN children}
                       \cup {f \in DOMAIN result \ DOMAIN t.children :
                                collapsedWhenNew(result, f, collapse)},
         selection |-> SelectSeq(t.selection, LAMBDA e : e \in TreeElements(children)),
         focus |-> SelectSeq(t.focus, LAMBDA e : e \in TreeElements(children)),
         rerendered |-> {}]

\* refreshTree(event) on the tree t, result being this.searchResult and
\* collapse the search.collapseResults setting: the tree and the elements
\* re-rendered after it.
refreshTreeOf(t, result, event, collapse) ==
    IF event.kind # "changed"
    THEN LET children == createResultIterator(result)
         IN  [children |-> children,
              collapsed |-> {n \in t.collapsed : n \in DOMAIN children}
                            \cup {f \in DOMAIN result \ DOMAIN t.children :
                                     collapsedWhenNew(result, f, collapse)},
              selection |-> SelectSeq(t.selection,
                                      LAMBDA e : e \in TreeElements(children)),
              focus |-> SelectSeq(t.focus, LAMBDA e : e \in TreeElements(children)),
              rerendered |-> {}]
    ELSE LET children == [n \in DOMAIN t.children |->
                             IF n \in event.elements
                             THEN createFileIterator(result, n)
                             ELSE t.children[n]]
         IN  [children |-> children,
              collapsed |-> t.collapsed,
              selection |-> SelectSeq(t.selection,
                                      LAMBDA e : e \in TreeElements(children)),
              focus |-> SelectSeq(t.focus, LAMBDA e : e \in TreeElements(children)),
              rerendered |-> event.elements]

InitRefresh ==
    /\ resultMatches \in SearchResults \cup {<<>>}
    /\ treeChildren = createResultIterator(resultMatches)
    /\ collapsedNodes = {}
    /\ selection = <<>>
    /\ focus = <<>>
    /\ rerendered = {}
    /\ collapseResults \in {"auto", "alwaysCollapse"}
    /\ treeOp = [op |-> "init", hangs |-> FALSE]
    /\ command = [status |-> "none"]
    /\ notified = <<>>
    /\ state = Idle
    /\ visible = TRUE
    /\ changedWhileHidden = FALSE
    /\ fileCount = 0
    /\ treeFiles = 0
    /\ refreshed = FALSE
    /\ message = "none"
    /\ inputMessage = "none"
    /\ pending = {}
    /\ cancelled = {}
    /\ progress = {}
    /\ slowArmed = {}
    /\ age = [q \in QueryIds |-> 0]
    /\ validating = {}
    /\ searchQ = <<>>
    /\ startOrder = <<>>
    /\ uiRefresh = [q \in QueryIds |-> NoInterval]
    /\ nextQ = 0
    /\ lastOp = [op |-> "init"]
    /\ vqQuery = <<>>
    /\ vqExist = <<>>
    /\ vqFolderQueries = <<>>
    /\ vqStatus = "pending"
    /\ vqError = "none"
    /\ providerDisposables = <<>>
    /\ registered = {}
    /\ opening = {}
    /\ openEditors = {}
    /\ invoked = 0
    /\ compareOp = [op |-> "init"]
    /\ isWindows = FALSE
    /\ clipboard = ""
    /\ infos = 0
    /\ copyOp = [op |-> "init"]
    /\ globalResourceToCompare = undefined
    /\ resourceSelectedForCompareContext = FALSE
    /\ openedDiffs = <<>>
    /\ compareLog = <<>>
    /\ workspace = [folders |-> <<>>]
    /\ removeOp = [op |-> "init"]
    /\ reveals = <<>>
    /\ workbenchState = "EMPTY"
    /\ wsFolders = <<>>
    /\ inputPatternIncludes = ""
    /\ queryDetailsShown = FALSE
    /\ searchInOp = [op |-> "init"]
    /\ resultCount = 0
    /\ replaceAlls = <<>>
    /\ replaceAllActionEnabled = FALSE
    /\ messagesElement = <<>>
    /\ errorNotifications = 0
    /\ replaceOp = [op |-> "init"]

\* The search result changes while the view is hidden (onSearchResultsChanged
\* only sets changedWhileHidden): a file match is added or removed or its
\* matches change. One change is left unrendered.
SearchResultChanges ==
    \E result \in SearchResults \cup {<<>>} :
        /\ treeOp.op = "init"
        /\ Cardinality({f \in DOMAIN result \cup DOMAIN resultMatches :
                            \/ f \notin DOMAIN result
                            \/ f \notin DOMAIN resultMatches
                            \/ result[f] # resultMatches[f]}) = 1
        /\ resultMatches' = result
        /\ treeOp' = [op |-> "searchResultChanges", hangs |-> FALSE]
        /\ UNCHANGED <<treeChildren, collapsedNodes, selection, focus, rerendered,
                       collapseResults, searchVars, validateVars, compareVars,
                       saveVars, copyVars, compareFilesVars, removeVars, revealVars,
                       includeVars, replaceVars>>

\* refreshTree(event), once
RefreshTree ==
    \E event \in ChangeEvents(resultMatches, treeChildren) :
        /\ treeOp.op # "refreshTree"
        /\ LET t == refreshTreeOf(T, resultMatches, event, collapseResults)
           IN  /\ treeChildren' = t.children
               /\ collapsedNodes' = t.collapsed
               /\ selection' = t.selection
               /\ focus' = t.focus
               /\ rerendered' = t.rerendered
        /\ treeOp' = [op |-> "refreshTree", hangs |-> FALSE, event |-> event]
        /\ UNCHANGED <<resultMatches, collapseResults, searchVars, validateVars,
                       compareVars, saveVars, copyVars, compareFilesVars, removeVars,
                       revealVars, includeVars, replaceVars>>

NextRefresh ==
    \/ SearchResultChanges
    \/ RefreshTree

SpecRefresh == InitRefresh /\ [][NextRefresh]_vars

\* ------------------------------------------------- completion of a search

\* The values of the search.collapseResults setting.
CollapseResults == {"auto", "alwaysCollapse", "alwaysExpand"}

\* The numbers of matches of the only file match of a result: one, and the
\* two around onlyMatch.count() < 50.
MatchCounts == {1, ExpandThreshold - 1, ExpandThreshold}

\* The results a search completes with: none, one file match with one of
\* these numbers of matches, or several file matches with one match each.
CompletedResults ==
    {<<>>}
    \cup {[f \in {file} |-> 1..n] : file \in FileMatches, n \in MatchCounts}
    \cup {[f \in files |-> {1}] :
             files \in {fs \in SUBSET FileMatches : Cardinality(fs) > 1}}

\* The part of a result the tree was given last: some of its file matches.
Restrict(result, files) == [f \in files |-> result[f]]

\* The trees the view can hold when the search settles: a visible view has
\* rendered every change of the result (onSearchResultsChanged), a hidden one
\* the file matches that were there at the last tick of the refresh interval.
RenderedBefore(result, isVisible) ==
    {createResultIterator(Restrict(result, shown)) :
        shown \in IF isVisible THEN {DOMAIN result} ELSE SUBSET DOMAIN result}

\* searchResult.matches(): the file matches of the result, in the order of
\* their folder and file.
matches(result) ==
    LET fs == DOMAIN result
        before(a, b) == a.folder < b.folder \/ (a.folder = b.folder /\ a.file <= b.file)
    IN  [k \in 1..Cardinality(fs) |->
            CHOOSE f \in fs : Cardinality({g \in fs : before(g, f)}) = k]

\* onlyMatch.count()
count(result, fileMatch) == Cardinality(result[fileMatch])

\* The elements onComplete calls tree.expand for: onlyMatch, or none.
expandedOnComplete(result, collapse) ==
    IF collapse # "alwaysCollapse" /\ Len(matches(result)) = 1
    THEN LET onlyMatch == matches(result)[1]
         IN  IF count(result, onlyMatch) < ExpandThreshold THEN {onlyMatch} ELSE {}
    ELSE {}

\* onComplete from "Do final render" to this.tree.expand(onlyMatch), on the
\* tree t: onSearchResultsChanged() renders when the view is visible, and
\* tree.expand changes nothing for an element the tree does not hold.
finalRender(t, result, isVisible, collapse) ==
    LET none == [kind |-> "none", elements |-> {}]
        a == IF isVisible THEN refreshTreeOf(t, result, none, collapse)
             ELSE [children |-> t.children, collapsed |-> t.collapsed,
                   selection |-> t.selection, focus |-> t.focus, rerendered |-> {}]
        es == expandedOnComplete(result, collapse)
    IN  [a EXCEPT !.collapsed = a.collapsed \ es]

InitComplete ==
    /\ resultMatches \in CompletedResults
    /\ visible \in BOOLEAN
    /\ changedWhileHidden = ~visible
    /\ treeChildren \in RenderedBefore(resultMatches, visible)
    /\ collapsedNodes \in SUBSET {n \in DOMAIN treeChildren : n.kind = "FileMatch"}
    /\ selection = <<>>
    /\ focus = <<>>
    /\ rerendered = {}
    /\ collapseResults \in CollapseResults
    /\ treeOp = [op |-> "init", hangs |-> FALSE]
    /\ state = Idle
    /\ fileCount = 0
    /\ treeFiles = 0
    /\ refreshed = FALSE
    /\ message = "none"
    /\ inputMessage = "none"
    /\ pending = {}
    /\ cancelled = {}
    /\ progress = {}
    /\ slowArmed = {}
    /\ age = [q \in QueryIds |-> 0]
    /\ validating = {}
    /\ searchQ = <<>>
    /\ startOrder = <<>>
    /\ uiRefresh = [q \in QueryIds |-> NoInterval]
    /\ nextQ = 0
    /\ lastOp = [op |-> "init"]
    /\ vqQuery = <<>>
    /\ vqExist = <<>>
    /\ vqFolderQueries = <<>>
    /\ vqStatus = "pending"
    /\ vqError = "none"
    /\ providerDisposables = <<>>
    /\ registered = {}
    /\ opening = {}
    /\ openEditors = {}
    /\ invoked = 0
    /\ compareOp = [op |-> "init"]
    /\ command = [status |-> "none"]
    /\ notified = <<>>
    /\ isWindows = FALSE
    /\ clipboard = ""
    /\ infos = 0
    /\ copyOp = [op |-> "init"]
    /\ globalResourceToCompare = undefined
    /\ resourceSelectedForCompareContext = FALSE
    /\ openedDiffs = <<>>
    /\ compareLog = <<>>
    /\ workspace = [folders |-> <<>>]
    /\ removeOp = [op |-> "init"]
    /\ reveals = <<>>
    /\ workbenchState = "EMPTY"
    /\ wsFolders = <<>>
    /\ inputPatternIncludes = ""
    /\ queryDetailsShown = FALSE
    /\ searchInOp = [op |-> "init"]
    /\ resultCount = 0
    /\ replaceAlls = <<>>
    /\ replaceAllActionEnabled = FALSE
    /\ messagesElement = <<>>
    /\ errorNotifications = 0
    /\ replaceOp = [op |-> "init"]

\* A search settles and onComplete runs, once.
OnComplete ==
    /\ treeOp.op = "init"
    /\ LET t == finalRender(T, resultMatches, visible, collapseResults)
       IN  /\ treeChildren' = t.children
           /\ collapsedNodes' = t.collapsed
           /\ selection' = t.selection
           /\ focus' = t.focus
           /\ rerendered' = t.rerendered
    /\ changedWhileHidden' = (changedWhileHidden \/ ~visible)
    /\ treeOp' = [op |-> "onComplete", hangs |-> FALSE,
                  expanded |-> expandedOnComplete(resultMatches, collapseResults)]
    /\ UNCHANGED <<resultMatches, collapseResults, state, visible, fileCount,
                   treeFiles, refreshed, message, inputMessage, pending, cancelled,
                   progress, slowArmed, age, validating, searchQ, startOrder,
                   uiRefresh, nextQ, lastOp, validateVars, compareVars, saveVars,
                   copyVars, compareFilesVars, removeVars, revealVars, includeVars, replaceVars>>

NextComplete == OnComplete

SpecComplete == InitComplete /\ [][NextComplete]_vars

\* -------------------------------------------------------------- replaceAll

\* The fields replaceAll reads and writes, as one record.
RA == [resultCount |-> resultCount, replaceAlls |-> replaceAlls,
       replaceAllActionEnabled |-> replaceAllActionEnabled,
       messagesElement |-> messagesElement,
       errorNotifications |-> errorNotifications]

\* buildAfterReplaceAllMessage(occurrences, fileCount, replaceValue)
afterReplaceAllMessage(occurrences) ==
    [kind |-> "afterReplaceAll", occurrences |-> occurrences]

replaceAll_NoCountCheck(r) ==
    [r EXCEPT !.replaceAlls = Append(r.replaceAlls,
                  [occurrences |-> r.resultCount, progress |-> "running",
                   dialog |-> "open", replacement |-> "none"])]

\* replaceAll() up to dialogService.confirm(confirmation): the progress task
\* of withProgress and the confirmation dialog of this call.
replaceAll(r) ==
    IF r.resultCount = 0 THEN r
    ELSE [r EXCEPT !.replaceAlls = Append(r.replaceAlls,
                       [occurrences |-> r.resultCount, progress |-> "running",
                        dialog |-> "open", replacement |-> "none"])]

\* The continuation of dialogService.confirm for call i.
confirmSettled(r, i, confirmed) ==
    IF confirmed
    THEN [r EXCEPT !.replaceAllActionEnabled = FALSE,
                   !.replaceAlls[i].dialog = "confirmed",
                   !.replaceAlls[i].replacement = "pending"]
    ELSE [r EXCEPT !.replaceAlls[i].dialog = "declined"]

\* The continuations of searchResult.replaceAll(progressReporter) for call
\* i; remaining is the count of the result the replacement leaves.
replaceSettled(r, i, ok, remaining) ==
    IF ok
    THEN [r EXCEPT !.replaceAlls[i].progress = "complete",
                   !.replaceAlls[i].replacement = "done",
                   !.resultCount = remaining,
                   !.messagesElement =
                       <<afterReplaceAllMessage(r.replaceAlls[i].occurrences)>>]
    ELSE [r EXCEPT !.replaceAlls[i].progress = "complete",
                   !.replaceAlls[i].replacement = "failed",
                   !.errorNotifications = r.errorNotifications + 1]

CommitReplace(op, r) ==
    /\ resultCount' = r.resultCount
    /\ replaceAlls' = r.replaceAlls
    /\ replaceAllActionEnabled' = r.replaceAllActionEnabled
    /\ messagesElement' = r.messagesElement
    /\ errorNotifications' = r.errorNotifications
    /\ replaceOp' = op
    /\ UNCHANGED <<searchVars, validateVars, compareVars, saveVars, copyVars,
                   compareFilesVars, removeVars, revealVars, includeVars, treeVars>>

InitReplace ==
    /\ resultCount \in 0..MaxOccurrences
    /\ replaceAlls = <<>>
    /\ replaceAllActionEnabled = (resultCount > 0)
    /\ messagesElement = <<>>
    /\ errorNotifications = 0
    /\ replaceOp = [op |-> "init"]
    /\ state = Idle
    /\ visible = TRUE
    /\ changedWhileHidden = FALSE
    /\ fileCount = 0
    /\ treeFiles = 0
    /\ refreshed = FALSE
    /\ message = "none"
    /\ inputMessage = "none"
    /\ pending = {}
    /\ cancelled = {}
    /\ progress = {}
    /\ slowArmed = {}
    /\ age = [q \in QueryIds |-> 0]
    /\ validating = {}
    /\ searchQ = <<>>
    /\ startOrder = <<>>
    /\ uiRefresh = [q \in QueryIds |-> NoInterval]
    /\ nextQ = 0
    /\ lastOp = [op |-> "init"]
    /\ vqQuery = <<>>
    /\ vqExist = <<>>
    /\ vqFolderQueries = <<>>
    /\ vqStatus = "pending"
    /\ vqError = "none"
    /\ providerDisposables = <<>>
    /\ registered = {}
    /\ opening = {}
    /\ openEditors = {}
    /\ invoked = 0
    /\ compareOp = [op |-> "init"]
    /\ command = [status |-> "none"]
    /\ notified = <<>>
    /\ isWindows = FALSE
    /\ clipboard = ""
    /\ infos = 0
    /\ copyOp = [op |-> "init"]
    /\ globalResourceToCompare = undefined
    /\ resourceSelectedForCompareContext = FALSE
    /\ openedDiffs = <<>>
    /\ compareLog = <<>>
    /\ workspace = [folders |-> <<>>]
    /\ removeOp = [op |-> "init"]
    /\ reveals = <<>>
    /\ workbenchState = "EMPTY"
    /\ wsFolders = <<>>
    /\ inputPatternIncludes = ""
    /\ queryDetailsShown = FALSE
    /\ searchInOp = [op |-> "init"]
    /\ resultMatches = <<>>
    /\ treeChildren = (Root :> <<>>)
    /\ collapsedNodes = {}
    /\ selection = <<>>
    /\ focus = <<>>
    /\ rerendered = {}
    /\ collapseResults = "auto"
    /\ treeOp = [op |-> "init", hangs |-> FALSE]

\* The user triggers the replace-all action.
ReplaceAll ==
    /\ Len(replaceAlls) < MaxReplaceAlls
    /\ CommitReplace([op |-> "replaceAll", i |-> Len(replaceAlls) + 1],
                     replaceAll(RA))

\* The user answers the confirmation dialog of call i.
ConfirmSettled ==
    \E i \in 1..Len(replaceAlls), confirmed \in BOOLEAN :
        /\ replaceAlls[i].dialog = "open"
        /\ CommitReplace([op |-> "confirmSettled", i |-> i],
                         confirmSettled(RA, i, confirmed))

\* The promise of searchResult.replaceAll of call i settles.
ReplaceSettled ==
    \E i \in 1..Len(replaceAlls), ok \in BOOLEAN, remaining \in 0..resultCount :
        /\ replaceAlls[i].replacement = "pending"
        /\ ~ok => remaining = resultCount
        /\ CommitReplace([op |-> "replaceSettled", i |-> i],
                         replaceSettled(RA, i, ok, remaining))

NextReplace ==
    \/ ReplaceAll
    \/ ConfirmSettled
    \/ ReplaceSettled

SpecReplace == InitReplace /\ [][NextReplace]_vars

\* The promise of a replacement that was started settles.
SpecReplaceLive == SpecReplace /\ WF_vars(ReplaceSettled)

\* ------------------------------------------------------------------ claims

Running(i) == searchQ[i].st = "running"

\* C1: doSearch invocations are serialized through currentSearchQ: doSearch of a
\* link runs only when the doSearch promise of every earlier link has settled,
\* searches start in the order onQueryTriggered was called, and a rejected
\* doSearch never keeps a later link from running doSearch.
C1_Serialized ==
    /\ \A i \in 1..Len(searchQ) :
          /\ searchQ[i].ran => \A j \in 1..(i - 1) : searchQ[j].outcome # "none"
          /\ Settled(searchQ[i].st) => searchQ[i].ran
          /\ (searchQ[i].st = "waiting" /\ i > 1 /\ Settled(searchQ[i - 1].st))
                => searchQ[i - 1].st = "fulfilled"
    /\ Cardinality({i \in 1..Len(searchQ) : Running(i)}) <= 1
    /\ pending \subseteq {searchQ[i].q : i \in {j \in 1..Len(searchQ) : Running(j)}}
    /\ Len(startOrder) <= Len(searchQ)
    /\ \A i \in 1..Len(startOrder) : startOrder[i] = searchQ[i].q

\* A later search ran doSearch after the doSearch promise before it rejected.
C1_Witness ==
    /\ Len(searchQ) >= 2
    /\ searchQ[1].outcome = "rejected"
    /\ searchQ[2].ran

\* C2: whenever the promise of viewModel.search settles (completion,
\* cancellation, any other error) the progress task of that doSearch is
\* completed: only a search still pending has a progress task that is not, and
\* none is left once the state is Idle.
C2_ProgressCompleted ==
    /\ progress \subseteq pending
    /\ state = Idle => progress = {}

\* A search failed with an error other than cancellation.
C2_Witness ==
    /\ lastOp.op = "searchSettled"
    /\ lastOp.outcome = "error"
    /\ progress = {}

\* C3: the state is Idle exactly when no search of doSearch is pending (at
\* first, and after each settles), doSearch leaves it Searching, and it is
\* SlowSearch only while a search has been pending for SlowDelay ms or more;
\* the slow timer of a settled search is cleared.
C3_UIState ==
    /\ state \in SearchUIState
    /\ (state = Idle) <=> (pending = {})
    /\ lastOp.op = "doSearch" => state = Searching
    /\ lastOp.op = "searchSettled" => state = Idle
    /\ state = SlowSearch => \E q \in pending : age[q] >= SlowDelay
    /\ slowArmed \subseteq pending

\* The slow timer of a pending search fired.
C3_Witness == state = SlowSearch /\ lastOp.op = "slowTimer"

\* C4: a change of the search result while the view is not visible refreshes no
\* tree and sets changedWhileHidden; onVisibilityChanged(true) refreshes the
\* tree and resets changedWhileHidden when it was set, and refreshes nothing
\* when it was not.
C4_ChangedWhileHidden ==
    [][/\ (fileCount' # fileCount /\ ~visible /\ ~visible')
            => (~refreshed' /\ treeFiles' = treeFiles /\ changedWhileHidden')
       /\ (lastOp'.op = "onVisibilityChanged" /\ lastOp'.arg /\ changedWhileHidden)
            => (refreshed' /\ treeFiles' = fileCount' /\ ~changedWhileHidden')
       /\ (lastOp'.op = "onVisibilityChanged" /\ lastOp'.arg /\ ~changedWhileHidden)
            => (~refreshed' /\ treeFiles' = treeFiles /\ ~changedWhileHidden')
      ]_vars

\* The view became visible after the result changed while it was hidden.
C4_Witness ==
    /\ lastOp.op = "onVisibilityChanged"
    /\ lastOp.arg
    /\ refreshed
    /\ treeFiles > 0

\* The k-th index (from 1) of the folder queries whose folder exists.
KthExisting(k) ==
    CHOOSE i \in 1..Len(vqQuery) :
        vqExist[i] /\ Cardinality({j \in 1..(i - 1) : vqExist[j]}) = k - 1

\* C5: validateQuery rejects, with the error naming the path of the first
\* folder query, exactly when there are folder queries and no folder exists;
\* otherwise it resolves and query.folderQueries is the sub-list of the folder
\* queries whose folder exists, in their order.
C5_ValidateQuery ==
    vqStatus # "pending" =>
        /\ (vqStatus = "rejected")
              <=> (Len(vqQuery) > 0 /\ \A i \in 1..Len(vqQuery) : ~vqExist[i])
        /\ vqStatus = "rejected"
              => vqError = "Search path not found: /" \o vqQuery[1]
        /\ vqStatus = "resolved"
              => /\ vqError = "none"
                 /\ Len(vqFolderQueries)
                      = Cardinality({i \in 1..Len(vqQuery) : vqExist[i]})
                 /\ \A k \in 1..Len(vqFolderQueries) :
                      vqFolderQueries[k] = vqQuery[KthExisting(k)]

\* A query whose folders are all missing was rejected.
C5_Witness ==
    /\ vqStatus = "rejected"
    /\ Len(vqQuery) >= 2
    /\ vqQuery[1] # vqQuery[2]

\* C6: onQueryChanged changes nothing when the input is invalid; with an empty
\* content pattern it clears the results and the message area, cancels the
\* running search and queues nothing; a query is handed to validateQuery only
\* for a valid, non-empty pattern whose query builds, and a search is queued
\* only when such a query validates.
C6_OnQueryChanged ==
    [][/\ (lastOp'.op = "onQueryChanged" /\ ~lastOp'.valid)
            => UNCHANGED <<state, visible, changedWhileHidden, fileCount, treeFiles,
                           message, inputMessage, pending, cancelled, progress,
                           slowArmed, age, validating, searchQ, startOrder, nextQ>>
       /\ (lastOp'.op = "onQueryChanged" /\ lastOp'.valid /\ lastOp'.pattern = "")
            => /\ fileCount' = 0
               /\ message' = "none"
               /\ pending' \subseteq cancelled'
               /\ UNCHANGED <<validating, searchQ, nextQ>>
       /\ validating' \ validating # {}
            => /\ lastOp'.op = "onQueryChanged"
               /\ lastOp'.valid /\ lastOp'.pattern # "" /\ lastOp'.built
       /\ searchQ' # searchQ
            => \/ /\ lastOp'.op = "validateSettled" /\ lastOp'.ok
                  /\ Len(searchQ') = Len(searchQ) + 1
                  /\ \E v \in validating : v.q = searchQ'[Len(searchQ')].q
               \/ Len(searchQ') = Len(searchQ)
      ]_vars

\* An empty content pattern cancelled the running search.
C6_Witness ==
    /\ lastOp.op = "onQueryChanged"
    /\ lastOp.valid
    /\ lastOp.pattern = ""
    /\ pending # {}
    /\ cancelled = pending


\* C7: once the command has registered a provider and every invocation has
\* returned, a visible-editors change that finds no editor of the
\* showModifications scheme leaves providerDisposables empty and no provider
\* registered.
C7_DisposedWhenNoEditor ==
    (compareOp.op = "visibleEditorsChange" /\ openEditors = {} /\ opening = {})
        => (providerDisposables = <<>> /\ registered = {})

\* C8: while a compare editor is open a provider is registered for the
\* showModifications scheme, and never more than one.
C8_ProviderWhileOpen ==
    /\ openEditors # {} => registered # {}
    /\ Cardinality(registered) <= 1


RECURSIVE NamesOf(_)
\* The names of the editors of a list, separated by ", ".
NamesOf(editors) ==
    IF Len(editors) = 0 THEN ""
    ELSE IF Len(editors) = 1 THEN editors[1].editor.name
    ELSE NamesOf(SubSeq(editors, 1, Len(editors) - 1))
         \o ", " \o editors[Len(editors)].editor.name

\* C9: a save command or the revert command never rejects because
\* editorService.save or editorService.revert rejected: that shows exactly one
\* error notification naming the editors and the command fulfils; nothing is
\* shown when the service succeeds.
C9_SaveNeverRejects ==
    /\ command.status # "rejected"
    /\ command.status = "pending" => notified = <<>>
    /\ command.status = "fulfilled" =>
          IF command.service = "failed"
          THEN notified =
                 <<[severity |-> "error",
                    text |-> "Failed to " \o command.kind \o " '"
                             \o NamesOf(command.editors) \o "': " \o command.error]>>
          ELSE command.service = "ok" /\ notified = <<>>

\* editorService.save rejected for two selected editors.
C9_Witness ==
    /\ command.status = "fulfilled"
    /\ command.service = "failed"
    /\ command.cmd = "saveAs"
    /\ Len(command.editors) = 2
    /\ Len(notified) = 1

RECURSIVE LabelLines(_, _, _)
\* The labels of the resources, each but the last followed by the delimiter.
LabelLines(resources, relative, delimiter) ==
    IF Len(resources) = 0 THEN ""
    ELSE LabelLines(SubSeq(resources, 1, Len(resources) - 1), relative, delimiter)
         \o (IF Len(resources) > 1 THEN delimiter ELSE "")
         \o (IF relative THEN resources[Len(resources)].relative
             ELSE resources[Len(resources)].fsPath)

\* C10: a copy-path command writes the clipboard exactly when a resource is
\* selected: the labels in selection order joined by CRLF on Windows and LF
\* otherwise, relative for copyRelativeFilePath and absolute otherwise; with no
\* resource the clipboard is unchanged and one info notification is shown.
C10_CopyPath ==
    [][IF Len(copyOp'.resources) > 0
       THEN /\ clipboard' = LabelLines(copyOp'.resources,
                                       copyOp'.op = "copyRelativeFilePath",
                                       IF isWindows THEN "\r\n" ELSE "\n")
            /\ infos' = infos
       ELSE /\ clipboard' = clipboard
            /\ infos' = infos + 1
      ]_vars

\* Two relative paths were copied on Windows.
C10_Witness ==
    /\ copyOp.op = "copyRelativeFilePath"
    /\ Len(copyOp.resources) = 2
    /\ isWindows
    /\ clipboard = "a.ts\r\nsrc/b.ts"

\* The positions of the selected editors that are not untitled.
TitledPositions(selected) ==
    {i \in 1..Len(selected) : ~selected[i].editor.untitled}

\* The k-th smallest element of the set of numbers ps.
KthOf(ps, k) == CHOOSE i \in ps : Cardinality({j \in ps : j <= i}) = k

\* C11: the list the revert command passes to editorService.revert is exactly
\* the selected editors that are not untitled, in selection order (the k-th
\* editor passed is the k-th selected editor that is not untitled), and the
\* options passed are { force: true }.
C11_RevertSkipsUntitled ==
    (command.status # "none" /\ command.cmd = "revert") =>
        LET ps == TitledPositions(command.selected)
        IN  /\ Len(command.editors) = Cardinality(ps)
            /\ \A k \in 1..Len(command.editors) :
                   command.editors[k] = command.selected[KthOf(ps, k)]
            /\ command.options = [force |-> TRUE]

\* A revert of a selection that holds an untitled editor before a file editor.
C11_Witness ==
    /\ command.status # "none"
    /\ command.cmd = "revert"
    /\ Len(command.selected) = 2
    /\ command.selected[1].editor.untitled
    /\ ~command.selected[2].editor.untitled
    /\ command.editors = <<command.selected[2]>>

RECURSIVE StoredBy(_)
\* What the most recent selectForCompare of log stored (undefined when it
\* resolved no resource, or when log holds no selectForCompare).
StoredBy(log) ==
    IF Len(log) = 0 THEN undefined
    ELSE IF log[Len(log)].cmd = "selectForCompare" THEN log[Len(log)].resource
    ELSE StoredBy(SubSeq(log, 1, Len(log) - 1))

\* C12: compareFiles opens exactly one diff editor, with the resource stored by
\* the most recent selectForCompare on the left and its own resource on the
\* right, when that selectForCompare stored a resource and the command
\* resolves one; in every other case it opens no editor.
C12_CompareFiles ==
    [][(/\ Len(compareLog') = Len(compareLog) + 1
        /\ compareLog'[Len(compareLog')].cmd = "compareFiles")
       => LET rightResource == compareLog'[Len(compareLog')].resource
              stored == StoredBy(compareLog)
          IN  IF stored # undefined /\ rightResource # undefined
              THEN openedDiffs' = Append(openedDiffs, [leftResource |-> stored,
                                                       rightResource |-> rightResource])
              ELSE openedDiffs' = openedDiffs]_vars

\* Two selectForCompare, then compareFiles: the diff has the second selection
\* on the left.
C12_Witness ==
    /\ Len(compareLog) = 3
    /\ compareLog[1] = [cmd |-> "selectForCompare", resource |-> "file:///a.ts"]
    /\ compareLog[2] = [cmd |-> "selectForCompare", resource |-> "file:///b.ts"]
    /\ compareLog[3] = [cmd |-> "compareFiles", resource |-> "file:///a.ts"]
    /\ openedDiffs = <<[leftResource |-> "file:///b.ts", rightResource |-> "file:///a.ts"]>>

\* The positions of the selected resources that are folders of the workspace.
RootPositions(selected, folders) ==
    {i \in 1..Len(selected) : \E j \in 1..Len(folders) : folders[j] = selected[i]}

\* C13: the list removeRootFolder passes to workspaceEditingService.removeFolders
\* holds exactly the selected resources that are the URI of a folder of the
\* workspace, in selection order, so no resource that is not a workspace root
\* is passed.
C13_RemoveOnlyRoots ==
    removeOp.op = "removeRootFolder" =>
        LET ps == RootPositions(removeOp.selected, removeOp.folders)
        IN  /\ Len(removeOp.removeFolders) = Cardinality(ps)
            /\ \A k \in 1..Len(removeOp.removeFolders) :
                   /\ removeOp.removeFolders[k] = removeOp.selected[KthOf(ps, k)]
                   /\ \E j \in 1..Len(removeOp.folders) :
                         removeOp.folders[j] = removeOp.removeFolders[k]

\* A selection of a folder below a root and of a root: only the root is passed.
C13_Witness ==
    /\ removeOp.op = "removeRootFolder"
    /\ removeOp.selected = <<"file:///r1/src", "file:///r1">>
    /\ removeOp.folders = <<"file:///r2", "file:///r1">>
    /\ removeOp.removeFolders = <<"file:///r1">>

\* Whether sequence p is a prefix of sequence q.
IsPrefix(p, q) == Len(p) <= Len(q) /\ SubSeq(q, 1, Len(p)) = p

\* The calls of reveal r on the target (a view or a service), in order.
CallsOn(r, target) == SelectSeq(r.calls, LAMBDA c : c.target = target)

\* C14: every revealInExplorer calls openViewlet first. When its resource
\* resolves and is inside the workspace it makes no call on the open-editors
\* view, and its further calls are, in this order, explorerView.setExpanded,
\* explorerService.select of the resource, explorerView.focus (all three once
\* it has returned with an explorer view present). Otherwise it makes no call
\* on the explorer view and selects nothing, and its further calls are
\* openEditorsView.setExpanded, openEditorsView.focus (both once it has
\* returned with an open-editors view present).
C14_RevealOrder ==
    \A i \in 1..Len(reveals) :
        LET r == reveals[i]
            inside == r.uri # undefined /\ isInsideWorkspace(r.uri)
            explorerCalls ==
                <<Call("explorerView", "setExpanded", "true"),
                  Call("explorerService", "select", r.uri),
                  Call("explorerView", "focus", "")>>
            openEditorsCalls ==
                <<Call("openEditorsView", "setExpanded", "true"),
                  Call("openEditorsView", "focus", "")>>
            rest == SubSeq(r.calls, 2, Len(r.calls))
        IN  /\ Len(r.calls) >= 1
            /\ r.calls[1].method = "openViewlet"
            /\ inside =>
                  /\ CallsOn(r, "openEditorsView") = <<>>
                  /\ IsPrefix(rest, explorerCalls)
                  /\ (r.pc = "done" /\ r.explorerView) => rest = explorerCalls
                  /\ (r.pc = "done" /\ ~r.explorerView) => rest = <<>>
            /\ ~inside =>
                  /\ CallsOn(r, "explorerView") = <<>>
                  /\ CallsOn(r, "explorerService") = <<>>
                  /\ IsPrefix(rest, openEditorsCalls)
                  /\ (r.pc = "done" /\ r.openEditorsView) => rest = openEditorsCalls
                  /\ (r.pc = "done" /\ ~r.openEditorsView) => rest = <<>>

\* A reveal of a file of the workspace that returned after the three calls on
\* the explorer, and a reveal of a file outside that expanded and focused the
\* open-editors view.
C14_Witness ==
    /\ Len(reveals) = 2
    /\ reveals[1].uri = "file:///r1/src/a.ts"
    /\ reveals[1].pc = "done"
    /\ Len(reveals[1].calls) = 4
    /\ reveals[2].uri = "file:///tmp/out.ts"
    /\ reveals[2].pc = "done"
    /\ Len(reveals[2].calls) = 3

\* The folder of wsFolders that holds resource r (r is in one).
OwningFolder(r) ==
    CHOOSE f \in {wsFolders[i] : i \in 1..Len(wsFolders)} :
        /\ f.uri.scheme = r.scheme
        /\ Len(f.uri.path) <= Len(r.path)
        /\ SubSeq(r.path, 1, Len(f.uri.path)) = f.uri.path

\* Whether resource r is in a folder of wsFolders.
HasOwningFolder(r) ==
    \E i \in 1..Len(wsFolders) :
        /\ wsFolders[i].uri.scheme = r.scheme
        /\ Len(wsFolders[i].uri.path) <= Len(r.path)
        /\ SubSeq(r.path, 1, Len(wsFolders[i].uri.path)) = wsFolders[i].uri.path

\* The path the claim gives a resource in multi-root mode.
MultiRootPath(r) ==
    LET f == OwningFolder(r)
        rel == relativePath(f.uri, r)
    IN  IF Cardinality({i \in 1..Len(wsFolders) : wsFolders[i].name = f.name}) = 1
        THEN IF rel = "" THEN "./" \o f.name ELSE "./" \o f.name \o "/" \o rel
        ELSE uriFsPath(r)

\* The include value for the list of paths: joined by ', ', or empty when
\* there is no path or a path is '.'.
IncludeOf(paths) ==
    IF Len(paths) = 0 \/ \E k \in 1..Len(paths) : paths[k] = "." THEN ""
    ELSE join(paths, ", ")

\* C15 as stated: every resource gives a path ('./' + its path relative to the
\* root in single-folder mode; './<rootName>', './<rootName>/<relative path>'
\* or its fsPath in multi-root mode), and the include input holds these paths
\* joined by ', ', or the empty string when there is no path or a path is '.'.
\* Stated for the resources the claim speaks of: file resources in
\* single-folder mode, resources inside a root in multi-root mode.
C15_EveryResourceGivesPath ==
    LET rs == searchInOp.resources
    IN  (/\ searchInOp.op = "searchInFolders"
         /\ \A i \in 1..Len(rs) :
               IF workbenchState = "FOLDER" THEN rs[i].scheme = "file"
               ELSE HasOwningFolder(rs[i]))
        => inputPatternIncludes =
              IncludeOf([i \in 1..Len(rs) |->
                            IF workbenchState = "FOLDER"
                            THEN "./" \o relativePath(wsFolders[1].uri, rs[i])
                            ELSE MultiRootPath(rs[i])])

\* Whether resource r gives a path: in single-folder mode when its path
\* relative to the root is defined and not empty, in multi-root mode when it
\* is inside a root.
GivesPath(r) ==
    IF workbenchState = "FOLDER"
    THEN relativePath(wsFolders[1].uri, r) \notin {undefined, ""}
    ELSE HasOwningFolder(r)

\* C15: searchInFolders sets the include input from the resources that give a
\* path, in their order: in single-folder mode a resource whose path relative
\* to the root is defined and not empty gives './' + that path (the root
\* itself gives no path); in multi-root mode a resource inside a root with a
\* unique name gives './<rootName>' or './<rootName>/<relative path>', one
\* inside a root with a shared name gives its fsPath, one in no root gives no
\* path. The input holds these paths joined by ', ', or the empty string when
\* there is no path or a path is '.'.
C15_SearchInFolders ==
    searchInOp.op = "searchInFolders" =>
        LET rs == searchInOp.resources
            ps == {i \in 1..Len(rs) : GivesPath(rs[i])}
        IN  inputPatternIncludes =
                IncludeOf([k \in 1..Cardinality(ps) |->
                              LET r == rs[KthOf(ps, k)]
                              IN  IF workbenchState = "FOLDER"
                                  THEN "./" \o relativePath(wsFolders[1].uri, r)
                                  ELSE MultiRootPath(r)])

\* Multi-root mode with two roots named app and one named lib: a folder below
\* an app root gives its fsPath, the lib root gives './lib'.
C15_Witness ==
    /\ searchInOp.op = "searchInFolders"
    /\ workbenchState = "WORKSPACE"
    /\ Len(wsFolders) = 3
    /\ searchInOp.resources = <<Uri("file", <<"w", "app", "src">>),
                                Uri("file", <<"w", "lib">>)>>
    /\ inputPatternIncludes = "/w/app/src, ./lib"

\* Every element of the tree in tree order: each node before its children,
\* collapsed or not.
TreeOrder(children) == Rows(children, {})

\* The positions of the matches in the tree order.
MatchPositions(children) ==
    {i \in 1..Len(TreeOrder(children)) : TreeOrder(children)[i].kind = "Match"}

\* The position of the selected element in the tree order (0 for none).
SelectedPosition(children, selected) ==
    IF selected = <<>> THEN 0
    ELSE CHOOSE i \in 1..Len(TreeOrder(children)) : TreeOrder(children)[i] = selected[1]

\* The nodes above element e in the tree.
Ancestors(children, e) ==
    {n \in DOMAIN children \ {Root} :
        n.kind # e.kind /\ n.folder = e.folder /\ (n.kind = "FileMatch" => n.file = e.file)}

Least(ps) == CHOOSE i \in ps : \A j \in ps : i <= j
Greatest(ps) == CHOOSE i \in ps : \A j \in ps : j <= i

\* C16: selectNextMatch, on a tree that holds a match, leaves the focus on the
\* Match that follows the selected element in tree order (the first Match of
\* the tree when nothing is selected or no Match follows), and expands exactly
\* the collapsed nodes above that Match.
C16_SelectNextMatch ==
    [][treeOp'.op = "selectNextMatch" =>
        LET ms == MatchPositions(treeChildren)
            after == {i \in ms : i > SelectedPosition(treeChildren, selection)}
            next == TreeOrder(treeChildren)[IF after = {} THEN Least(ms) ELSE Least(after)]
        IN  /\ ~treeOp'.hangs
            /\ focus' = <<next>>
            /\ next.kind = "Match"
            /\ collapsedNodes' = collapsedNodes \ Ancestors(treeChildren, next)
            /\ treeChildren' = treeChildren]_vars

\* After selectNextMatch on a tree of two folders the focus is on the first
\* match of the tree, the first folder and its first file are expanded and the
\* second folder is collapsed.
C16_Witness ==
    /\ treeOp.op = "selectNextMatch"
    /\ Root \in DOMAIN treeChildren
    /\ treeChildren[Root] = <<FolderMatch(1), FolderMatch(2)>>
    /\ focus = <<Match(1, 1, 1)>>
    /\ collapsedNodes = {FolderMatch(2)}

\* C17: selectPreviousMatch, on a tree that holds a match, leaves the focus on
\* the Match that precedes the selected element in tree order (the last Match
\* of the tree when nothing is selected or no Match precedes), and expands
\* exactly the collapsed nodes above that Match.
C17_SelectPreviousMatch ==
    [][treeOp'.op = "selectPreviousMatch" =>
        LET ms == MatchPositions(treeChildren)
            before == {i \in ms : i < SelectedPosition(treeChildren, selection)}
            prev == TreeOrder(treeChildren)[IF before = {} THEN Greatest(ms)
                                            ELSE Greatest(before)]
        IN  /\ ~treeOp'.hangs
            /\ focus' = <<prev>>
            /\ prev.kind = "Match"
            /\ collapsedNodes' = collapsedNodes \ Ancestors(treeChildren, prev)
            /\ treeChildren' = treeChildren]_vars

\* After selectPreviousMatch on a tree of two folders the focus is on the last
\* match of the tree, the second folder and its file are expanded and the first
\* folder is collapsed.
C17_Witness ==
    /\ treeOp.op = "selectPreviousMatch"
    /\ Root \in DOMAIN treeChildren
    /\ treeChildren[Root] = <<FolderMatch(1), FolderMatch(2)>>
    /\ focus = <<Match(2, 1, 1)>>
    /\ collapsedNodes = {FolderMatch(1)}

\* C18: refreshTree without an event, or with an event whose added or removed
\* flag is set, replaces the children of the whole tree by those of the search
\* result and re-renders no element; with any other event it replaces the
\* children of each element of the event by the matches the result holds for
\* it, re-renders these elements, and leaves the nodes of the tree and the
\* children of every other node as they were.
C18_RefreshTreeFrame ==
    [][treeOp'.op = "refreshTree" =>
        IF treeOp'.event.kind # "changed"
        THEN /\ treeChildren' = createResultIterator(resultMatches)
             /\ rerendered' = {}
        ELSE /\ DOMAIN treeChildren' = DOMAIN treeChildren
             /\ rerendered' = treeOp'.event.elements
             /\ \A n \in DOMAIN treeChildren :
                   IF n \in treeOp'.event.elements
                   THEN /\ Range(treeChildren'[n]) =
                              {Match(n.folder, n.file, j) : j \in resultMatches[n]}
                        /\ \A i, j \in 1..Len(treeChildren'[n]) :
                              i < j => treeChildren'[n][i].match < treeChildren'[n][j].match
                   ELSE treeChildren'[n] = treeChildren[n]]_vars

\* After refreshTree with an event that lists file matches only, a file match
\* the event did not list still has the children it had, which are not the
\* matches the result holds for it.
C18_Witness ==
    /\ treeOp.op = "refreshTree"
    /\ treeOp.event.kind = "changed"
    /\ \E n \in (DOMAIN treeChildren \cap DOMAIN resultMatches) \ treeOp.event.elements :
          treeChildren[n] # createFileIterator(resultMatches, n)

\* The searches issued by the view that are pending and not cancelled.
InFlight == pending \ cancelled

\* A step in which onQueryTriggered appended a link to the search queue.
QueryTriggered == Len(searchQ') = Len(searchQ) + 1

\* C19: at no time are two searches issued by the view both pending and
\* uncancelled, and a step in which onQueryTriggered appends the doSearch of a
\* new query to the search queue leaves every search that was pending
\* cancelled, while the new link has not started its own search yet.
C19_CancelBeforeQueue ==
    /\ [](Cardinality(InFlight) <= 1)
    /\ [][QueryTriggered =>
            /\ pending' = pending
            /\ pending \subseteq cancelled'
            /\ searchQ'[Len(searchQ')].st = "waiting"
            /\ searchQ'[Len(searchQ')].q \notin pending']_vars

\* A query was triggered while a search was in flight: that search is still
\* pending, it is cancelled, and the new query waits in the queue.
C19_Witness ==
    /\ pending # {}
    /\ pending \subseteq cancelled
    /\ \E i \in 1..Len(searchQ) :
           /\ searchQ[i].st = "waiting"
           /\ searchQ[i].q \notin pending
           /\ lastOp.op = "validateSettled"

\* C20: a tick of the UI refresh interval of a search that observes state
\* Idle clears its interval, refreshes nothing and calls no updateActions; a
\* tick that observes another state keeps the interval, refreshes the tree
\* and the count exactly when the file count of the result differs from the
\* count the interval rendered last (then the tree shows that file count),
\* and calls updateActions exactly when the file count is above zero and the
\* interval has not called it before, so at most once for its search.
C20_UiRefreshTick ==
    [][lastOp'.op = "uiRefreshTick" =>
        LET before == uiRefresh[lastOp'.q]
            after  == uiRefresh'[lastOp'.q]
        IN  IF state = Idle
            THEN /\ ~after.active
                 /\ ~refreshed'
                 /\ treeFiles' = treeFiles
                 /\ after.updateActionsCalls = before.updateActionsCalls
            ELSE /\ after.active
                 /\ refreshed' <=> fileCount # before.visibleMatches
                 /\ after.visibleMatches = fileCount
                 /\ treeFiles' = IF refreshed' THEN fileCount ELSE treeFiles
                 /\ after.updateActionsCalls > before.updateActionsCalls
                        <=> fileCount > 0 /\ before.updateActionsCalls = 0
                 /\ after.updateActionsCalls <= 1]_vars

\* A tick of an interval that found the files it rendered last still there
\* while the search runs: it refreshed nothing, and the interval has called
\* updateActions once.
C20_Witness ==
    /\ lastOp.op = "uiRefreshTick"
    /\ state # Idle
    /\ ~refreshed
    /\ fileCount > 0
    /\ uiRefresh[lastOp.q].active
    /\ uiRefresh[lastOp.q].visibleMatches = fileCount
    /\ uiRefresh[lastOp.q].updateActionsCalls = 1

\* The result holds exactly one file match, with fewer than 50 matches, and
\* search.collapseResults is not 'alwaysCollapse'.
ExpandsOnlyMatch ==
    /\ collapseResults # "alwaysCollapse"
    /\ Cardinality(DOMAIN resultMatches) = 1
    /\ \A f \in DOMAIN resultMatches : Cardinality(resultMatches[f]) < ExpandThreshold

\* The tree holds node n and shows it expanded.
IsExpanded(children, collapsed, n) == n \in TreeElements(children) /\ n \notin collapsed

\* C21: when a search settles and onComplete runs, the single file match of
\* the result is a node of the tree and expanded afterwards if the setting is
\* not 'alwaysCollapse', the result holds exactly one file match and that
\* file match has fewer than 50 matches; in every other case every node that
\* was collapsed before and is still in the tree is collapsed afterwards, and
\* tree.expand was called for no element.
C21_ExpandOnComplete ==
    [][treeOp'.op = "onComplete" =>
        IF ExpandsOnlyMatch
        THEN \A f \in DOMAIN resultMatches :
                 IsExpanded(treeChildren', collapsedNodes', f)
        ELSE /\ treeOp'.expanded = {}
             /\ \A n \in collapsedNodes \cap TreeElements(treeChildren') :
                    n \in collapsedNodes']_vars

\* The searches whose UI refresh interval is set.
ActiveIntervals == {q \in QueryIds : uiRefresh[q].active}

\* C22: at most one UI refresh interval created by doSearch is active at any
\* time.
C22_OneIntervalActive == Cardinality(ActiveIntervals) <= 1

\* C23: doSearch starts for the queries in the order in which onQueryChanged
\* submitted them (queries are numbered in that order), whatever the order
\* in which their validations settle.
C23_SubmissionOrder ==
    \A i, j \in 1..Len(startOrder) : i < j => startOrder[i] < startOrder[j]

\* Call i of replaceAll has had its confirmation dialog answered.
Answered(i) == i <= Len(replaceAlls) /\ replaceAlls[i].dialog # "open"

\* The progress task of call i of replaceAll is completed.
ProgressCompleted(i) == i <= Len(replaceAlls) /\ replaceAlls[i].progress = "complete"

\* C24: once the confirmation dialog of a call of replaceAll has been
\* answered, confirmed or declined, the progress task the call started is
\* eventually completed, whether the replacement succeeds or fails.
C24_ProgressCompletes ==
    \A i \in 1..MaxReplaceAlls : Answered(i) ~> ProgressCompleted(i)

\* C25: a step of replaceAll that finds the count of the result zero starts
\* no dialog and no progress task; searchResult.replaceAll is called only for
\* a call made with a count above zero whose dialog was confirmed, and at the
\* step that calls it the replace-all action is disabled; a replacement that
\* fails adds an error notification and leaves the message alone, one that
\* succeeds shows the summary message built when replaceAll was called.
C25_ReplaceAfterConfirmation ==
    /\ [](\A i \in 1..Len(replaceAlls) :
            /\ replaceAlls[i].occurrences > 0
            /\ replaceAlls[i].replacement # "none" => replaceAlls[i].dialog = "confirmed")
    /\ [][/\ (replaceOp'.op = "replaceAll" /\ resultCount = 0)
                => UNCHANGED <<resultCount, replaceAlls, replaceAllActionEnabled,
                               messagesElement, errorNotifications>>
           /\ \A i \in 1..Len(replaceAlls) :
                 LET before == replaceAlls[i]
                     after  == replaceAlls'[i]
                 IN  /\ (before.replacement = "none" /\ after.replacement # "none")
                        => /\ after.replacement = "pending"
                           /\ before.dialog = "open"
                           /\ after.dialog = "confirmed"
                           /\ ~replaceAllActionEnabled'
                     /\ (before.replacement # "failed" /\ after.replacement = "failed")
                        => /\ errorNotifications' = errorNotifications + 1
                           /\ messagesElement' = messagesElement
                     /\ (before.replacement # "done" /\ after.replacement = "done")
                        => /\ messagesElement' =
                                  <<afterReplaceAllMessage(before.occurrences)>>
                           /\ errorNotifications' = errorNotifications]_vars

\* A replacement that was confirmed has succeeded and its summary message is
\* shown, and another that was confirmed has failed with an error
\* notification.
C25_Witness ==
    /\ \E i \in 1..Len(replaceAlls) :
           /\ replaceAlls[i].replacement = "done"
           /\ messagesElement = <<afterReplaceAllMessage(replaceAlls[i].occurrences)>>
    /\ \E i \in 1..Len(replaceAlls) : replaceAlls[i].replacement = "failed"
    /\ errorNotifications = 1
    /\ ~replaceAllActionEnabled

\* C26: selectNextMatch and selectPreviousMatch return for every state of the
\* result tree: their loops reach a Match or stop.
C26_Terminates ==
    treeOp.op \in {"selectNextMatch", "selectPreviousMatch"} => ~treeOp.hangs

====
